---- MODULE Spec2Model ----
(***************************************************************************)
(* Ownership and transfer model of qoir-rs: the raw result records the     *)
(* codec engine returns, their wrapping in Arc<DecodedResult> /            *)
(* Arc<EncodedResult>, the slices DecodedImage / EncodedBuffer expose, and *)
(* the public decode / encode operations built on them.                    *)
(***************************************************************************)
EXTENDS Integers, Sequences, FiniteSets, TLC

VARIABLES
    heap,      \* the engine's allocations: call index -> block
    arcs,      \* Arc<DecodedResult> / Arc<EncodedResult> cells: call index -> cell
    handles,   \* DecodedImage / EncodedBuffer values the caller holds
    views,     \* slices the caller copied out of public fields
    calls,     \* log of the public calls made so far
    lastRead,  \* what the caller's most recent read through a copied slice met
    threads,   \* position of each thread inside Arc::clone / Arc::drop
    fs         \* the files: path -> file

vars == <<heap, arcs, handles, views, calls, lastRead, threads, fs>>

----------------------------------------------------------------------------
(* Bounds of the model *)

MaxCalls == 2
MaxHandles == 3
MaxViews == 1
MaxDim == 2
MaxPad == 1
MaxBlob == 1
MaxMsgLen == 2
MaxEnc == 2
MaxThreads == 2
MaxTripCalls == 3
MaxIoCalls == 3
MaxRoom == 5
BufCapacity == 16
MaxOwnCalls == 2

----------------------------------------------------------------------------
(* Memory: one block per call for what the engine allocates, one for the   *)
(* call's input, one for the metadata blobs given to it                    *)

\* the calls a caller makes at most, whatever the specification
CallIds ==
    1..(IF MaxTripCalls >= MaxCalls /\ MaxTripCalls >= MaxIoCalls THEN MaxTripCalls
        ELSE IF MaxIoCalls >= MaxCalls THEN MaxIoCalls ELSE MaxCalls)

\* where the input of call c lies: the pixel buffer or the bytes the caller
\* lends, or the Vec that decode / decode_from_reader read the bytes into
InputBlock(c) == Cardinality(CallIds) + c

\* where the Vecs of the metadata blobs in the EncodeOptions of call c lie
BlobBlock(c) == 2 * Cardinality(CallIds) + c

\* the engine's blocks, then the inputs, then the blobs
MemoryIds == 1..(3 * Cardinality(CallIds))

----------------------------------------------------------------------------
(* Pointers, C strings, slices, options *)

NULL == [blk |-> 0, off |-> 0]

Ptr(b, o) == [blk |-> b, off |-> o]

NullStr == [null |-> TRUE, bytes |-> <<>>]

CStr(bytes) == [null |-> FALSE, bytes |-> bytes]

Slice(p, n) == [ptr |-> p, len |-> n]

None == [some |-> FALSE, ptr |-> NULL, len |-> 0]

Some(s) == [some |-> TRUE, ptr |-> s.ptr, len |-> s.len]

\* std::slice::from_raw_parts(ptr, len): the view is the pair, nothing is copied
from_raw_parts(p, n) == Slice(p, n)

----------------------------------------------------------------------------
(* PixelFormat *)

PF_Invalid == 0
PF_BGRX == 1
PF_BGRANonPremul == 2
PF_BGRAPremul == 3
PF_BGR == 17
PF_RGBX == 33
PF_RGBANonPremul == 34
PF_RGBAPremul == 35
PF_RGB == 49

PixelFormats ==
    {PF_Invalid, PF_BGRX, PF_BGRANonPremul, PF_BGRAPremul, PF_BGR,
     PF_RGBX, PF_RGBANonPremul, PF_RGBAPremul, PF_RGB}

\* pixel_format as u32: the discriminant of the variant
PixelFormat_as_u32(f) ==
    CASE f = PF_Invalid -> 0
      [] f = PF_BGRX -> 1
      [] f = PF_BGRANonPremul -> 2
      [] f = PF_BGRAPremul -> 3
      [] f = PF_BGR -> 17
      [] f = PF_RGBX -> 33
      [] f = PF_RGBANonPremul -> 34
      [] f = PF_RGBAPremul -> 35
      [] f = PF_RGB -> 49

\* a conversion that takes the code for the variant, whatever the code
PixelFormat_from_unchecked(value) == value

\* impl From<qoir_pixel_format> for PixelFormat
PixelFormat_from(value) ==
    CASE value = 0 -> PF_Invalid
      [] value = 1 -> PF_BGRX
      [] value = 2 -> PF_BGRANonPremul
      [] value = 3 -> PF_BGRAPremul
      [] value = 17 -> PF_BGR
      [] value = 33 -> PF_RGBX
      [] value = 34 -> PF_RGBANonPremul
      [] value = 35 -> PF_RGBAPremul
      [] value = 49 -> PF_RGB
      [] OTHER -> PF_Invalid

\* bytes per pixel the engine uses for a format (3-byte formats have no X/A)
bytes_per_pixel(pf) == IF pf \in {PF_BGR, PF_RGB} THEN 3 ELSE 4

----------------------------------------------------------------------------
(* Raw result records of the engine (bindgen structs of qoir.h) *)

\* qoir_pixel_configuration::zero / qoir_pixel_buffer::zero
qoir_pixel_buffer_zero ==
    [data |-> NULL,
     pixcfg |-> [pixfmt |-> 0, width_in_pixels |-> 0, height_in_pixels |-> 0],
     stride_in_bytes |-> 0]

\* a qoir_decode_result carrying only a status message and, maybe, memory
DecodeFailureRecord(msg, om) ==
    [status_message |-> CStr(msg), owned_memory |-> om,
     dst_pixbuf |-> qoir_pixel_buffer_zero,
     metadata_cicp_ptr |-> NULL, metadata_cicp_len |-> 0,
     metadata_iccp_ptr |-> NULL, metadata_iccp_len |-> 0,
     metadata_exif_ptr |-> NULL, metadata_exif_len |-> 0,
     metadata_xmp_ptr |-> NULL, metadata_xmp_len |-> 0]

\* a qoir_encode_result carrying only a status message and, maybe, memory
EncodeFailureRecord(msg, om) ==
    [status_message |-> CStr(msg), owned_memory |-> om,
     dst_ptr |-> NULL, dst_len |-> 0]

\* the bytes the engine writes into the block of call c
EngineBytes(c, size) == [i \in 1..size |-> (16 * c + i) % 256]

NoBlock == [state |-> "unalloc", size |-> 0, bytes |-> <<>>, frees |-> 0]

LiveBlock(c, size) ==
    [state |-> "live", size |-> size, bytes |-> EngineBytes(c, size), frees |-> 0]

\* a metadata blob choice: -1 is an absent blob, n >= 0 a blob of n bytes
BlobLen(b) == IF b < 0 THEN 0 ELSE b

BlobPtr(c, b, off) == IF b < 0 THEN NULL ELSE Ptr(c, off)

\* run_decode succeeding: one block holds the pixel buffer of stride * height
\* bytes at offset 0 and, after it, the metadata blobs present in the stream
DecodeSuccessRecord(c, pf, w, h, pad, bl, base) ==
    LET stride == w * bytes_per_pixel(pf) + pad
        pix == stride * h
        o1 == pix
        o2 == o1 + BlobLen(bl[1])
        o3 == o2 + BlobLen(bl[2])
        o4 == o3 + BlobLen(bl[3])
    IN  [status_message |-> NullStr, owned_memory |-> base,
         dst_pixbuf |->
            [data |-> base,
             pixcfg |-> [pixfmt |-> pf, width_in_pixels |-> w,
                         height_in_pixels |-> h],
             stride_in_bytes |-> stride],
         metadata_cicp_ptr |-> BlobPtr(c, bl[1], o1),
         metadata_cicp_len |-> BlobLen(bl[1]),
         metadata_iccp_ptr |-> BlobPtr(c, bl[2], o2),
         metadata_iccp_len |-> BlobLen(bl[2]),
         metadata_exif_ptr |-> BlobPtr(c, bl[3], o3),
         metadata_exif_len |-> BlobLen(bl[3]),
         metadata_xmp_ptr |-> BlobPtr(c, bl[4], o4),
         metadata_xmp_len |-> BlobLen(bl[4])]

DecodeBlockSize(pf, w, h, pad, bl) ==
    (w * bytes_per_pixel(pf) + pad) * h
        + BlobLen(bl[1]) + BlobLen(bl[2]) + BlobLen(bl[3]) + BlobLen(bl[4])

\* what the engine can answer to call c's qoir_decode: a record and the block
\* it allocated for it.  prof bounds the answers: prof.dims, prof.pads,
\* prof.blobs (4-tuples of blob choices) and prof.msgs (status messages).
qoir_decode(c, pf, prof) ==
    { [rec |-> DecodeFailureRecord(m, NULL), block |-> NoBlock] :
        m \in prof.msgs }
    \cup
    { [rec |-> DecodeFailureRecord(m, Ptr(c, 0)), block |-> LiveBlock(c, 1)] :
        m \in prof.msgs }
    \cup
    IF pf = PF_Invalid THEN {} ELSE
    UNION { LET size == DecodeBlockSize(pf, x[1], x[2], x[3], x[4])
            IN  { [rec |-> DecodeSuccessRecord(c, pf, x[1], x[2], x[3], x[4],
                                               Ptr(c, 0)),
                   block |-> LiveBlock(c, size)] }
                \cup
                \* malloc(0) may return a null pointer
                IF size = 0 /\ \A i \in 1..4 : x[4][i] < 0
                THEN { [rec |-> DecodeSuccessRecord(c, pf, x[1], x[2], x[3],
                                                    x[4], NULL),
                        block |-> NoBlock] }
                ELSE {}
          : x \in prof.dims \X prof.dims \X prof.pads \X prof.blobs }

\* what the engine can answer to call c's qoir_encode
qoir_encode(c, prof) ==
    { [rec |-> EncodeFailureRecord(m, NULL), block |-> NoBlock] :
        m \in prof.msgs }
    \cup
    { [rec |-> EncodeFailureRecord(m, Ptr(c, 0)), block |-> LiveBlock(c, 1)] :
        m \in prof.msgs }
    \cup
    { [rec |-> [status_message |-> NullStr, owned_memory |-> Ptr(c, 0),
                dst_ptr |-> Ptr(c, 0), dst_len |-> n],
       block |-> LiveBlock(c, n)] : n \in prof.encs }

\* what the engine can answer to qoir_decode_pixel_configuration
qoir_decode_pixel_configuration(prof) ==
    { [status_message |-> CStr(m),
       dst_pixcfg |-> [pixfmt |-> 0, width_in_pixels |-> 0,
                       height_in_pixels |-> 0]] : m \in prof.msgs }
    \cup
    { [status_message |-> NullStr,
       dst_pixcfg |-> [pixfmt |-> x[1], width_in_pixels |-> x[2],
                       height_in_pixels |-> x[3]]] :
        x \in prof.rawfmts \X prof.dims \X prof.dims }

----------------------------------------------------------------------------
(* The codec as the engine's contract describes it: a lossless or lossy    *)
(* stream that carries the dimensions, the pixel format, up to four        *)
(* metadata blobs and the pixel rows, decoded into the requested format    *)

\* first byte of a stream
QOIR_MAGIC == 81

\* highest lossiness the engine accepts
QOIR_MAX_LOSSINESS == 7

\* a pointer into the caller's memory, with the bytes readable there
MemPtr(bytes) == [null |-> FALSE, mem |-> bytes]

NullMemPtr == [null |-> TRUE, mem |-> <<>>]

IsBGR(pf) == pf \in {PF_BGRX, PF_BGRANonPremul, PF_BGRAPremul, PF_BGR}

IsPremul(pf) == pf \in {PF_BGRAPremul, PF_RGBAPremul}

HasAlpha(pf) ==
    pf \in {PF_BGRANonPremul, PF_BGRAPremul, PF_RGBANonPremul, PF_RGBAPremul}

Pow2(n) == IF n = 0 THEN 1 ELSE IF n = 1 THEN 2 ELSE IF n = 2 THEN 4
           ELSE IF n = 3 THEN 8 ELSE IF n = 4 THEN 16 ELSE IF n = 5 THEN 32
           ELSE IF n = 6 THEN 64 ELSE 128

\* lossy encoding keeps the high 8 - lossiness bits of every byte
Quantise(b, lossiness) == (b \div Pow2(lossiness)) * Pow2(lossiness)

\* one pixel as <<r, g, b, a>>, non-premultiplied
ToRGBA(pf, px) ==
    LET a == IF HasAlpha(pf) THEN px[4] ELSE 255
        un(v) == IF ~IsPremul(pf) THEN v
                 ELSE IF a = 0 THEN 0
                 ELSE IF (v * 255) \div a > 255 THEN 255 ELSE (v * 255) \div a
    IN  IF IsBGR(pf) THEN <<un(px[3]), un(px[2]), un(px[1]), a>>
        ELSE <<un(px[1]), un(px[2]), un(px[3]), a>>

\* <<r, g, b, a>> as one pixel of format pf
FromRGBA(pf, q) ==
    LET a == IF HasAlpha(pf) THEN q[4] ELSE 255
        pre(v) == IF IsPremul(pf) THEN (v * a) \div 255 ELSE v
        three == IF IsBGR(pf) THEN <<pre(q[3]), pre(q[2]), pre(q[1])>>
                 ELSE <<pre(q[1]), pre(q[2]), pre(q[3])>>
    IN  IF bytes_per_pixel(pf) = 3 THEN three ELSE Append(three, a)

ConvertPixel(from, to, px) ==
    IF from = to THEN px ELSE FromRGBA(to, ToRGBA(from, px))

\* n tightly packed pixels of format from as pixels of format to
ConvertPixels(from, to, n, src) ==
    LET bf == bytes_per_pixel(from)
        bt == bytes_per_pixel(to)
    IN  [i \in 1..(n * bt) |->
            LET k == (i - 1) \div bt
                j == ((i - 1) % bt) + 1
            IN  ConvertPixel(from, to, SubSeq(src, k * bf + 1, k * bf + bf))[j]]

\* the byte at position i of the caller's memory (0 stands for whatever lies
\* past the end of a buffer shorter than its shape says)
byte_at(mem, i) == IF i <= Len(mem) THEN mem[i] ELSE 0

\* the rows the engine reads from a pixel buffer: width * bytes_per_pixel
\* bytes at the start of every stride_in_bytes, height times
TightRows(pixbuf) ==
    LET row == pixbuf.pixcfg.width_in_pixels * bytes_per_pixel(pixbuf.pixcfg.pixfmt)
    IN  [i \in 1..(row * pixbuf.pixcfg.height_in_pixels) |->
            byte_at(pixbuf.data.mem,
                    ((i - 1) \div row) * pixbuf.stride_in_bytes
                        + ((i - 1) % row) + 1)]

\* a metadata chunk of a stream: its length, then its bytes; length 0 when the
\* blob is absent
Chunk(p, n) == IF p.null \/ n = 0 THEN <<0>> ELSE <<n>> \o SubSeq(p.mem, 1, n)

\* whether the engine accepts a pixel buffer and options for encoding
Encodable(pixbuf, options) ==
    /\ ~pixbuf.data.null
    /\ pixbuf.pixcfg.pixfmt \in PixelFormats \ {PF_Invalid}
    /\ options.lossiness <= QOIR_MAX_LOSSINESS
    /\ pixbuf.stride_in_bytes >=
          pixbuf.pixcfg.width_in_pixels * bytes_per_pixel(pixbuf.pixcfg.pixfmt)

\* the stream run_encode produces
EncodeStream(pixbuf, options) ==
    <<QOIR_MAGIC, pixbuf.pixcfg.width_in_pixels, pixbuf.pixcfg.height_in_pixels,
      pixbuf.pixcfg.pixfmt, options.lossiness>>
    \o Chunk(options.metadata_cicp_ptr, options.metadata_cicp_len)
    \o Chunk(options.metadata_iccp_ptr, options.metadata_iccp_len)
    \o Chunk(options.metadata_exif_ptr, options.metadata_exif_len)
    \o Chunk(options.metadata_xmp_ptr, options.metadata_xmp_len)
    \o [i \in DOMAIN TightRows(pixbuf) |->
           Quantise(TightRows(pixbuf)[i], options.lossiness)]

\* the message of an engine failure
STATUS_INVALID == <<35, 113>>

\* a block the engine allocated and filled with bytes
FilledBlock(bytes) ==
    [state |-> "live", size |-> Len(bytes), bytes |-> bytes, frees |-> 0]

\* run_encode as call c: the stream in a block of its own, or a message
run_encode(c, pixbuf, options) ==
    IF Encodable(pixbuf, options)
    THEN LET stream == EncodeStream(pixbuf, options)
         IN  [rec |-> [status_message |-> NullStr, owned_memory |-> Ptr(c, 0),
                       dst_ptr |-> Ptr(c, 0), dst_len |-> Len(stream)],
              block |-> FilledBlock(stream)]
    ELSE [rec |-> EncodeFailureRecord(STATUS_INVALID, NULL), block |-> NoBlock]

\* the header and the chunks of a stream, and where its pixel rows start
ParseStream(data) ==
    LET n1 == byte_at(data, 6)
        p2 == 7 + n1
        n2 == byte_at(data, p2)
        p3 == p2 + 1 + n2
        n3 == byte_at(data, p3)
        p4 == p3 + 1 + n3
        n4 == byte_at(data, p4)
        rows == p4 + 1 + n4
    IN  [width |-> byte_at(data, 2), height |-> byte_at(data, 3),
         pixfmt |-> byte_at(data, 4), lossiness |-> byte_at(data, 5),
         blobs |-> <<SubSeq(data, 7, 6 + n1), SubSeq(data, p2 + 1, p2 + n2),
                     SubSeq(data, p3 + 1, p3 + n3), SubSeq(data, p4 + 1, p4 + n4)>>,
         rows |-> rows]

\* whether the first bytes are the header of a stream
HeaderValid(data) ==
    /\ Len(data) >= 5
    /\ data[1] = QOIR_MAGIC
    /\ data[4] \in PixelFormats \ {PF_Invalid}
    /\ data[5] <= QOIR_MAX_LOSSINESS

\* whether the bytes are one whole stream
StreamValid(data) ==
    /\ HeaderValid(data)
    /\ LET s == ParseStream(data)
       IN  /\ s.rows <= Len(data) + 1
           /\ Len(data) - s.rows + 1 =
                 s.width * s.height * bytes_per_pixel(s.pixfmt)

\* the format run_decode decodes into: the one requested, RGBA when none is
RequestedFormat(options) ==
    IF options.pixfmt = PF_Invalid THEN PF_RGBANonPremul ELSE options.pixfmt

\* whether the point (x, y) lies in a rectangle: low bounds inclusive, high
\* bounds exclusive
InRectangle(r, x, y) == r.x0 <= x /\ x < r.x1 /\ r.y0 <= y /\ y < r.y1

\* whether run_decode writes the destination pixel (x, y): the source pixel
\* placed there by the offsets exists, and both lie in the clip rectangles
\* that are in use
PixelWritten(options, s, x, y) ==
    /\ options.use_dst_clip_rectangle =>
          InRectangle(options.dst_clip_rectangle, x, y)
    /\ x - options.offset_x >= 0 /\ x - options.offset_x < s.width
    /\ y - options.offset_y >= 0 /\ y - options.offset_y < s.height
    /\ options.use_src_clip_rectangle =>
          InRectangle(options.src_clip_rectangle,
                      x - options.offset_x, y - options.offset_y)

\* the destination buffer: every pixel run_decode writes holds the source
\* pixel the offsets place there, every other pixel is left zero
PlacePixels(options, s, bt, conv) ==
    [i \in 1..(s.width * s.height * bt) |->
        LET k == (i - 1) \div bt
            x == k % s.width
            y == k \div s.width
        IN  IF PixelWritten(options, s, x, y)
            THEN conv[((y - options.offset_y) * s.width
                          + (x - options.offset_x)) * bt + ((i - 1) % bt) + 1]
            ELSE 0]

\* run_decode as call c: the pixels in the requested format, tightly packed,
\* and the blobs of the stream after them, in one block; or a message
run_decode(c, data, options) ==
    IF StreamValid(data) /\ RequestedFormat(options) \in PixelFormats
    THEN LET s == ParseStream(data)
             to == RequestedFormat(options)
             pixels == PlacePixels(options, s, bytes_per_pixel(to),
                           ConvertPixels(s.pixfmt, to, s.width * s.height,
                                         SubSeq(data, s.rows, Len(data))))
             bl == [i \in 1..4 |-> IF s.blobs[i] = <<>> THEN -1
                                   ELSE Len(s.blobs[i])]
         IN  [rec |-> DecodeSuccessRecord(c, to, s.width, s.height, 0, bl,
                                          Ptr(c, 0)),
              block |-> FilledBlock(pixels \o s.blobs[1] \o s.blobs[2]
                                        \o s.blobs[3] \o s.blobs[4])]
    ELSE [rec |-> DecodeFailureRecord(STATUS_INVALID, NULL), block |-> NoBlock]

\* read_metadata: the dimensions and the format the header stores
run_read_metadata(data) ==
    IF HeaderValid(data)
    THEN [status_message |-> NullStr,
          dst_pixcfg |-> [pixfmt |-> data[4], width_in_pixels |-> data[2],
                          height_in_pixels |-> data[3]]]
    ELSE [status_message |-> CStr(STATUS_INVALID),
          dst_pixcfg |-> [pixfmt |-> 0, width_in_pixels |-> 0,
                          height_in_pixels |-> 0]]

----------------------------------------------------------------------------
(* CStr::from_ptr(..).to_string_lossy().into_owned() *)

IsCont(b) == b >= 128 /\ b <= 191

\* core::str::utf8_char_width
utf8_char_width(b) ==
    IF b < 128 THEN 1
    ELSE IF b >= 194 /\ b <= 223 THEN 2
    ELSE IF b >= 224 /\ b <= 239 THEN 3
    ELSE IF b >= 240 /\ b <= 244 THEN 4
    ELSE 0

\* safe_get: the byte at position i, 0 past the end
safe_get(s, i) == IF i <= Len(s) THEN s[i] ELSE 0

\* whether the second byte of a 3- or 4-byte sequence is in its lead's range
SecondOk(lead, b) ==
    IF lead = 224 THEN b >= 160 /\ b <= 191
    ELSE IF lead = 237 THEN b >= 128 /\ b <= 159
    ELSE IF lead = 240 THEN b >= 144 /\ b <= 191
    ELSE IF lead = 244 THEN b >= 128 /\ b <= 143
    ELSE IsCont(b)

\* Utf8Chunks::next on the head of s: <<valid, n>>, the n >= 1 bytes taken and
\* whether they form one valid character (else they are one invalid chunk)
Utf8Head(s) ==
    LET w == utf8_char_width(s[1])
    IN  IF w = 1 THEN <<TRUE, 1>>
        ELSE IF w = 2 THEN
            IF IsCont(safe_get(s, 2)) THEN <<TRUE, 2>> ELSE <<FALSE, 1>>
        ELSE IF w = 3 THEN
            IF ~SecondOk(s[1], safe_get(s, 2)) THEN <<FALSE, 1>>
            ELSE IF ~IsCont(safe_get(s, 3)) THEN <<FALSE, 2>>
            ELSE <<TRUE, 3>>
        ELSE IF w = 4 THEN
            IF ~SecondOk(s[1], safe_get(s, 2)) THEN <<FALSE, 1>>
            ELSE IF ~IsCont(safe_get(s, 3)) THEN <<FALSE, 2>>
            ELSE IF ~IsCont(safe_get(s, 4)) THEN <<FALSE, 3>>
            ELSE <<TRUE, 4>>
        ELSE <<FALSE, 1>>

\* U+FFFD REPLACEMENT CHARACTER in UTF-8
REPLACEMENT == <<239, 191, 189>>

\* a conversion that keeps ASCII and puts '?' for every other byte
to_string_ascii(s) == [i \in 1..Len(s) |-> IF s[i] < 128 THEN s[i] ELSE 63]

RECURSIVE to_string_lossy(_)
\* the String's UTF-8 bytes: valid characters copied, every invalid chunk
\* replaced by U+FFFD
to_string_lossy(s) ==
    IF s = <<>> THEN <<>>
    ELSE LET hd == Utf8Head(s)
             rest == SubSeq(s, hd[2] + 1, Len(s))
         IN  IF hd[1]
             THEN SubSeq(s, 1, hd[2]) \o to_string_lossy(rest)
             ELSE REPLACEMENT \o to_string_lossy(rest)

\* whether a byte string is valid UTF-8
RECURSIVE IsUtf8(_)
IsUtf8(s) ==
    IF s = <<>> THEN TRUE
    ELSE LET hd == Utf8Head(s)
         IN  hd[1] /\ IsUtf8(SubSeq(s, hd[2] + 1, Len(s)))

----------------------------------------------------------------------------
(* Results of the public operations *)

Ok(h) == [ok |-> TRUE, handle |-> h, value |-> <<>>, err |-> "", msg |-> <<>>]

OkValue(v) == [ok |-> TRUE, handle |-> 0, value |-> v, err |-> "", msg |-> <<>>]

Err(kind, msg) ==
    [ok |-> FALSE, handle |-> 0, value |-> <<>>, err |-> kind, msg |-> msg]

----------------------------------------------------------------------------
(* Owned results: Arc<DecodedResult>, Arc<EncodedResult> and their Drop *)

NoArc == [state |-> "none", strong |-> 0, result |-> <<>>]

\* Arc::new(DecodedResult::new(data)) / Arc::new(EncodedResult::new(buffer))
Arc_new(rec) == [state |-> "live", strong |-> 1, result |-> rec]

\* a clone that copies the pointer to the cell and leaves the count alone
Arc_clone_uncounted(a) == a

\* Arc::clone: one more strong reference to the same cell
Arc_clone(a) == [a EXCEPT !.strong = @ + 1]

\* a free that releases every live block of the engine along with the one
\* it is given
free_every_block(h, p) ==
    [b \in DOMAIN h |->
        IF b = p.blk \/ (b \in CallIds /\ h[b].state = "live")
        THEN [state |-> "freed", size |-> h[b].size, bytes |-> <<>>,
              frees |-> h[b].frees + 1]
        ELSE h[b]]

\* libc::free(p)
free(h, p) ==
    [h EXCEPT ![p.blk] = [state |-> "freed", size |-> @.size, bytes |-> <<>>,
                          frees |-> @.frees + 1]]

\* a destructor that frees the input of the call along with the block
OwnedResult_drop_with_input(h, rec) ==
    IF rec.owned_memory # NULL
    THEN free(free(h, rec.owned_memory),
              Ptr(InputBlock(rec.owned_memory.blk), 0))
    ELSE h

\* Drop for DecodedResult / EncodedResult
OwnedResult_drop(h, rec) ==
    IF rec.owned_memory # NULL THEN free(h, rec.owned_memory) ELSE h

\* a drop that runs the destructor whatever the count was
Arc_drop_every_time(strongBefore) == TRUE

\* a drop that never runs the destructor
Arc_drop_never(strongBefore) == FALSE

\* Arc::drop: the strong count goes down by one, and the thread that took it
\* from 1 to 0 runs the destructor of the value inside
Arc_drop_is_last(strongBefore) == strongBefore = 1

\* the block an owned result holds, NoBlock when it holds none
BlockOf(a) ==
    IF arcs[a].state = "none" \/ arcs[a].result.owned_memory = NULL
    THEN NoBlock
    ELSE heap[arcs[a].result.owned_memory.blk]

OwnsMemory(a) ==
    arcs[a].state # "none" /\ arcs[a].result.owned_memory # NULL

----------------------------------------------------------------------------
(* DecodedImage / EncodedBuffer *)

NoHandle == [kind |-> "none"]

\* a test that takes attached memory, not the message, for the discriminant
is_failure_by_memory(rec) == rec.owned_memory = NULL

\* a test that takes every record for a success
is_failure_never(rec) == FALSE

\* the status message is the success / failure discriminant
is_failure(rec) == ~rec.status_message.null

\* length of the pixel view DecodedImage::new builds
pixels_len(width, height, stride) == width * height * stride

\* one metadata field of DecodedImage::new
metadata_field(p, n) == IF p # NULL THEN Some(from_raw_parts(p, n)) ELSE None

\* DecodedImage::new(data), the Arc being cell a
DecodedImage_new(a, data) ==
    [kind |-> "DecodedImage",
     result |-> a,
     image |->
        [pixels |-> from_raw_parts(
                        data.dst_pixbuf.data,
                        pixels_len(data.dst_pixbuf.pixcfg.width_in_pixels,
                                   data.dst_pixbuf.pixcfg.height_in_pixels,
                                   data.dst_pixbuf.stride_in_bytes)),
         width |-> data.dst_pixbuf.pixcfg.width_in_pixels,
         height |-> data.dst_pixbuf.pixcfg.height_in_pixels,
         pixel_format |-> PixelFormat_from(data.dst_pixbuf.pixcfg.pixfmt),
         stride_in_bytes |-> data.dst_pixbuf.stride_in_bytes],
     cic_profile |-> metadata_field(data.metadata_cicp_ptr, data.metadata_cicp_len),
     icc_profile |-> metadata_field(data.metadata_iccp_ptr, data.metadata_iccp_len),
     exif |-> metadata_field(data.metadata_exif_ptr, data.metadata_exif_len),
     xmp |-> metadata_field(data.metadata_xmp_ptr, data.metadata_xmp_len)]

\* EncodedBuffer::new(buffer), the Arc being cell a
EncodedBuffer_new(a, buffer) ==
    [kind |-> "EncodedBuffer",
     result |-> a,
     data |-> from_raw_parts(buffer.dst_ptr, buffer.dst_len)]

\* the slices a handle exposes in its public fields
PublicSlices(h) ==
    IF h.kind = "DecodedImage"
    THEN {h.image.pixels}
         \cup { Slice(f.ptr, f.len) :
                  f \in { g \in {h.cic_profile, h.icc_profile, h.exif, h.xmp} :
                            g.some } }
    ELSE IF h.kind = "EncodedBuffer" THEN {h.data}
    ELSE {}

Slots == 1..MaxHandles

FreeSlots == { i \in Slots : handles[i] = NoHandle }

LiveSlots == { i \in Slots : handles[i] # NoHandle }

\* the slot a new handle takes
NewSlot ==
    IF FreeSlots = {} THEN 0
    ELSE CHOOSE i \in FreeSlots : \A j \in FreeSlots : i <= j

HandlesOf(a) == { i \in LiveSlots : handles[i].result = a }

Threads == 1..MaxThreads

IdleThread == [pc |-> "idle", held |-> {}, arc |-> 0, old |-> 0]

----------------------------------------------------------------------------
(* Inputs of the calls *)

\* bytes a status message is made of: 'A', and the two bytes of U+00E9
MsgBytes == {65, 195, 169}

\* the non-empty byte strings of at most n bytes
Messages(n) == UNION { [1..k -> MsgBytes] : k \in 1..n }

BlobChoices == (-1)..MaxBlob

\* values of a qoir_pixel_format (u32) the engine can answer: the codes of the
\* formats, codes next to them and between them, a code whose low byte is the
\* code of a format, and a code with the high bits set
RawCodes == (0..64) \cup {255, 256 + PF_BGRX, 2147483647}

\* every answer of the engine within the bounds
WideProfile ==
    [dims |-> 0..MaxDim, pads |-> 0..MaxPad,
     blobs |-> BlobChoices \X BlobChoices \X BlobChoices \X BlobChoices,
     msgs |-> Messages(MaxMsgLen), encs |-> 0..MaxEnc,
     rawfmts |-> RawCodes]

\* the answers that differ in what is allocated and shared
LifecycleProfile ==
    [dims |-> {0, MaxDim}, pads |-> {0},
     blobs |-> {<<-1, -1, -1, -1>>, <<MaxBlob, MaxBlob, MaxBlob, MaxBlob>>},
     msgs |-> {<<65>>}, encs |-> {MaxEnc},
     rawfmts |-> {PF_RGBANonPremul}]

\* the answers threads share a result of
SharingProfile ==
    [dims |-> {MaxDim}, pads |-> {0}, blobs |-> {<<-1, -1, -1, -1>>},
     msgs |-> {<<65>>}, encs |-> {MaxEnc}, rawfmts |-> {PF_RGBANonPremul}]

\* Rectangle, the engine's qoir_rectangle
Rectangle(x0, y0, x1, y1) == [x0 |-> x0, y0 |-> y0, x1 |-> x1, y1 |-> y1]

\* qoir_rectangle::zero
qoir_rectangle_zero == Rectangle(0, 0, 0, 0)

\* Option<Rectangle>
NoRect == [some |-> FALSE, rect |-> qoir_rectangle_zero]

SomeRect(r) == [some |-> TRUE, rect |-> r]

DecodeOptions(pixel_format, src_clip_rect, dst_clip_rect, offset_x, offset_y) ==
    [pixel_format |-> pixel_format, src_clip_rect |-> src_clip_rect,
     dst_clip_rect |-> dst_clip_rect, offset_x |-> offset_x,
     offset_y |-> offset_y]

\* DecodeOptions::default
DecodeOptions_default == DecodeOptions(PF_RGBANonPremul, NoRect, NoRect, 0, 0)

DecodeOptionsSet ==
    { DecodeOptions(pf, NoRect, NoRect, 0, 0) : pf \in {PF_RGBANonPremul, PF_RGB} }

\* Image values a caller can build: any shape, also one that breaks
\* stride_in_bytes >= width * bytes_per_pixel or pixels.len() >= stride * height
Images(dims, fmts, slack) ==
    { [pixels_len |-> (x[1] * bytes_per_pixel(x[3]) + x[4]) * x[2] + x[5],
       width |-> x[1], height |-> x[2], pixel_format |-> x[3],
       stride_in_bytes |-> x[1] * bytes_per_pixel(x[3]) + x[4]] :
        x \in { y \in dims \X dims \X fmts \X slack \X slack :
                  /\ y[1] * bytes_per_pixel(y[3]) + y[4] >= 0
                  /\ (y[1] * bytes_per_pixel(y[3]) + y[4]) * y[2] + y[5] >= 0 } }

\* Option<Vec<u8>>
NoVec == [some |-> FALSE, bytes |-> <<>>]

SomeVec(bytes) == [some |-> TRUE, bytes |-> bytes]

EncodeOptions(cicp, icc, exif, xmp, lossiness) ==
    [cicp_profile |-> cicp, icc_profile |-> icc, exif |-> exif, xmp |-> xmp,
     lossiness |-> lossiness, dither |-> FALSE]

EncodeOptions_default == EncodeOptions(NoVec, NoVec, NoVec, NoVec, 0)

\* options.<blob>.as_deref().map_or(std::ptr::null(), |s| s.as_ptr())
as_ptr_or_null(v) == IF v.some THEN MemPtr(v.bytes) ELSE NullMemPtr

\* options.<blob>.as_deref().map_or(0, |s| s.len())
len_or_zero(v) == IF v.some THEN Len(v.bytes) ELSE 0

\* a translation that hands the engine exif for xmp and xmp for exif
qoir_encode_options_crossed(options) ==
    [metadata_cicp_ptr |-> as_ptr_or_null(options.cicp_profile),
     metadata_cicp_len |-> len_or_zero(options.cicp_profile),
     metadata_iccp_ptr |-> as_ptr_or_null(options.icc_profile),
     metadata_iccp_len |-> len_or_zero(options.icc_profile),
     metadata_exif_ptr |-> as_ptr_or_null(options.xmp),
     metadata_exif_len |-> len_or_zero(options.xmp),
     metadata_xmp_ptr |-> as_ptr_or_null(options.exif),
     metadata_xmp_len |-> len_or_zero(options.exif),
     lossiness |-> options.lossiness, dither |-> options.dither]

\* the qoir_encode_options encode_to_memory builds from EncodeOptions
qoir_encode_options_new(options) ==
    [metadata_cicp_ptr |-> as_ptr_or_null(options.cicp_profile),
     metadata_cicp_len |-> len_or_zero(options.cicp_profile),
     metadata_iccp_ptr |-> as_ptr_or_null(options.icc_profile),
     metadata_iccp_len |-> len_or_zero(options.icc_profile),
     metadata_exif_ptr |-> as_ptr_or_null(options.exif),
     metadata_exif_len |-> len_or_zero(options.exif),
     metadata_xmp_ptr |-> as_ptr_or_null(options.xmp),
     metadata_xmp_len |-> len_or_zero(options.xmp),
     lossiness |-> options.lossiness, dither |-> options.dither]

\* the qoir_pixel_buffer encode_to_memory builds from the Image
qoir_pixel_buffer_new(image) ==
    [stride_in_bytes |-> image.stride_in_bytes,
     data |-> MemPtr(image.pixels),
     pixcfg |-> [width_in_pixels |-> image.width,
                 height_in_pixels |-> image.height,
                 pixfmt |-> PixelFormat_as_u32(image.pixel_format)]]

\* option.unwrap_or(Rectangle::zero())
unwrap_or_zero(o) == IF o.some THEN o.rect ELSE qoir_rectangle_zero

\* a translation that hands the engine every rectangle as one in use, an
\* unset one as the zero rectangle
qoir_decode_options_always_clip(options) ==
    [pixfmt |-> PixelFormat_as_u32(options.pixel_format),
     offset_x |-> options.offset_x,
     offset_y |-> options.offset_y,
     use_src_clip_rectangle |-> TRUE,
     use_dst_clip_rectangle |-> TRUE,
     src_clip_rectangle |-> unwrap_or_zero(options.src_clip_rect),
     dst_clip_rectangle |-> unwrap_or_zero(options.dst_clip_rect),
     pixbuf |-> qoir_pixel_buffer_zero]

\* the qoir_decode_options decode_from_memory builds from DecodeOptions, the
\* fields it does not name taken from Default for qoir_decode_options
qoir_decode_options_new(options) ==
    [pixfmt |-> PixelFormat_as_u32(options.pixel_format),
     offset_x |-> options.offset_x,
     offset_y |-> options.offset_y,
     use_src_clip_rectangle |-> options.src_clip_rect.some,
     use_dst_clip_rectangle |-> options.dst_clip_rect.some,
     src_clip_rectangle |-> unwrap_or_zero(options.src_clip_rect),
     dst_clip_rectangle |-> unwrap_or_zero(options.dst_clip_rect),
     pixbuf |-> qoir_pixel_buffer_zero]

\* an Image over bytes the caller owns
Image(pixels, width, height, pixel_format, stride_in_bytes) ==
    [pixels |-> pixels, pixels_len |-> Len(pixels), width |-> width,
     height |-> height, pixel_format |-> pixel_format,
     stride_in_bytes |-> stride_in_bytes]

\* the test image of the round-trip tests: byte i of the buffer is i % 256,
\* rows pad bytes longer than width * channels
create_dummy_image(width, height, pixel_format, pad) ==
    LET stride == width * bytes_per_pixel(pixel_format) + pad
    IN  Image([i \in 1..(stride * height) |-> (i - 1) % 256],
              width, height, pixel_format, stride)

----------------------------------------------------------------------------
(* The public operations *)

\* the thread of a sequential caller
MainThread == CHOOSE t \in Threads : \A u \in Threads : t <= u

Holds(t, i) == threads[t].pc = "idle" /\ i \in threads[t].held

\* an operation that invokes the engine again when it answered a failure
invocations_with_retry(out) == IF ~out.rec.status_message.null THEN 2 ELSE 1

\* the number of times one call of an operation invokes the engine
invocations(out) == 1

\* what a call leaves behind when it returns: the value returned, the owned
\* result and the handle built (NoArc, NoHandle when none is), the heap
Outcome(ret, arc, handle, h, out) ==
    [ret |-> ret, arc |-> arc, handle |-> handle, heap |-> h,
     raw |-> out.rec, engine |-> invocations(out)]

\* decode_from_memory(data, options) as call c, the engine answering out and
\* a handle it returns going to slot
decode_from_memory_returns(c, slot, out) ==
    LET decoded == out.rec
        h == [heap EXCEPT ![c] = out.block]
    IN  IF is_failure(decoded)
        THEN Outcome(Err("DecodingFailed",
                         to_string_lossy(decoded.status_message.bytes)),
                     NoArc, NoHandle, h, out)
        ELSE Outcome(Ok(slot), Arc_new(decoded), DecodedImage_new(c, decoded),
                     h, out)

\* encode_to_memory(image, options) as call c, the engine answering out
encode_to_memory_returns(c, slot, out) ==
    LET result == out.rec
        h == [heap EXCEPT ![c] = out.block]
    IN  IF is_failure(result)
        THEN Outcome(Err("EncodingFailed",
                         to_string_lossy(result.status_message.bytes)),
                     NoArc, NoHandle, h, out)
        ELSE Outcome(Ok(slot), Arc_new(result), EncodedBuffer_new(c, result),
                     h, out)

\* a call that did no I/O
NoIo == [kind |-> "none"]

EncodeOperations == {"encode_to_memory", "encode_to_writer", "encode_to_file"}

\* the bytes of the input of a call: the pixels of the Image (zeros when only
\* their number is known), or the bytes decoded
InputBytes(op, arg) ==
    IF op \notin EncodeOperations THEN arg
    ELSE IF "pixels" \in DOMAIN arg THEN arg.pixels
    ELSE [i \in 1..arg.pixels_len |-> 0]

\* the bytes of the metadata blobs of EncodeOptions, one Vec after the other
BlobVecs(options) ==
    options.cicp_profile.bytes \o options.icc_profile.bytes
        \o options.exif.bytes \o options.xmp.bytes

\* memory the operation owns and drops when it returns: the Vec<u8> data of
\* decode once the file is open and of decode_from_reader, and the Vecs of the
\* EncodeOptions, which every encode operation takes by value
drops_input(op, ret) ==
    \/ op = "decode_from_reader"
    \/ op = "decode" /\ ret.err # "FileNotFound"

\* memory that held bytes, as a call leaves it: released drops times by the
\* operation as it returns, besides the times it was released before
LeftAs(block, bytes, drops) ==
    LET f == block.frees + drops
    IN  [state |-> IF f > 0 THEN "freed" ELSE "live", size |-> Len(bytes),
         bytes |-> IF f > 0 THEN <<>> ELSE bytes, frees |-> f]

\* the heap with the input and the blobs of call c as the call leaves them
WithInputs(h, c, op, arg, options, ret) ==
    [h EXCEPT
       ![InputBlock(c)] =
           IF op = "decode" /\ ret.err = "FileNotFound" THEN @
           ELSE LeftAs(@, InputBytes(op, arg),
                       IF drops_input(op, ret) THEN 1 ELSE 0),
       ![BlobBlock(c)] =
           IF op \in EncodeOperations /\ BlobVecs(options) # <<>>
           THEN LeftAs(@, BlobVecs(options), 1)
           ELSE @]

\* thread t's call of operation op returns with outcome r: the caller holds
\* the handle, if one is returned, and the call is logged
Return(t, op, arg, options, io, r) ==
    LET c == Len(calls) + 1
    IN  /\ threads[t].pc = "idle"
        /\ r.handle # NoHandle => FreeSlots # {}
        /\ heap' = WithInputs(r.heap, c, op, arg, options, r.ret)
        /\ arcs' = [arcs EXCEPT ![c] = r.arc]
        /\ IF r.ret.ok /\ r.handle # NoHandle
           THEN /\ handles' = [handles EXCEPT ![NewSlot] = r.handle]
                /\ threads' = [threads EXCEPT ![t].held = @ \cup {NewSlot}]
           ELSE UNCHANGED <<handles, threads>>
        /\ calls' = Append(calls,
              [op |-> op, arg |-> arg, options |-> options, io |-> io,
               engine |-> r.engine, raw |-> r.raw, ret |-> r.ret])
        /\ UNCHANGED <<views, lastRead>>

\* decode_from_memory(data, options) called by thread t, the engine answering out
decode_from_memory(t, data, options, out) ==
    /\ Return(t, "decode_from_memory", data, options, NoIo,
              decode_from_memory_returns(Len(calls) + 1, NewSlot, out))
    /\ UNCHANGED fs

\* decode_basic_metadata(data) called by thread t, the engine answering decoded
decode_basic_metadata(t, data, decoded) ==
    /\ Return(t, "decode_basic_metadata", data, <<>>, NoIo,
              Outcome(IF is_failure(decoded)
                      THEN Err("DecodingFailed",
                               to_string_lossy(decoded.status_message.bytes))
                      ELSE OkValue(<<decoded.dst_pixcfg.width_in_pixels,
                                     decoded.dst_pixcfg.height_in_pixels,
                                     PixelFormat_from(decoded.dst_pixcfg.pixfmt)>>),
                      NoArc, NoHandle, heap, [rec |-> decoded]))
    /\ UNCHANGED fs

\* encode_to_memory(image, options) called by thread t, the engine answering out
encode_to_memory(t, image, options, out) ==
    /\ Return(t, "encode_to_memory", image, options, NoIo,
              encode_to_memory_returns(Len(calls) + 1, NewSlot, out))
    /\ UNCHANGED fs

\* #[derive(Clone)] on DecodedImage / EncodedBuffer: the Arc is cloned (one
\* atomic increment of the strong count), the slices are copied as they are
Clone(t, i) ==
    /\ Holds(t, i)
    /\ FreeSlots # {}
    /\ arcs' = [arcs EXCEPT ![handles[i].result] = Arc_clone(@)]
    /\ handles' = [handles EXCEPT ![NewSlot] = handles[i]]
    /\ threads' = [threads EXCEPT ![t].held = @ \cup {NewSlot}]
    /\ UNCHANGED <<heap, views, calls, lastRead, fs>>

\* dropping a DecodedImage / EncodedBuffer drops its Arc; with one thread the
\* decrement and the destructor it may trigger are one step
Drop(t, i) ==
    /\ Holds(t, i)
    /\ LET a == handles[i].result
       IN  /\ handles' = [handles EXCEPT ![i] = NoHandle]
           /\ threads' = [threads EXCEPT ![t].held = @ \ {i}]
           /\ IF Arc_drop_is_last(arcs[a].strong)
              THEN /\ arcs' = [arcs EXCEPT ![a].state = "dropped",
                                           ![a].strong = 0]
                   /\ heap' = OwnedResult_drop(heap, arcs[a].result)
              ELSE /\ arcs' = [arcs EXCEPT ![a].strong = @ - 1]
                   /\ UNCHANGED heap
    /\ UNCHANGED <<views, calls, lastRead, fs>>

\* the caller copies a slice out of a public field: the slice is a &'a [u8]
\* whose 'a the signatures of decode_from_memory / encode_to_memory leave free
CopySlice(i, s) ==
    /\ i \in LiveSlots
    /\ s \in PublicSlices(handles[i])
    /\ Cardinality(views) < MaxViews
    /\ s \notin views
    /\ views' = views \cup {s}
    /\ UNCHANGED <<heap, arcs, handles, calls, lastRead, threads, fs>>

\* what reading the bytes of a slice meets
ReadOutcome(s) ==
    IF s.len = 0 THEN "empty"
    ELSE IF s.ptr = NULL THEN "null"
    ELSE IF heap[s.ptr.blk].state # "live" THEN "released"
    ELSE IF s.ptr.off + s.len > heap[s.ptr.blk].size THEN "out_of_bounds"
    ELSE "ok"

\* the caller reads through a slice it copied
ReadView(s) ==
    /\ s \in views
    /\ lastRead' = ReadOutcome(s)
    /\ lastRead' # lastRead
    /\ UNCHANGED <<heap, arcs, handles, views, calls, threads, fs>>

----------------------------------------------------------------------------
(* The caller's program: calls, clones, drops, copies and reads in any order *)

\* the paths the caller names
Paths == {"a.qoir"}

\* a path: whether a file exists there, its content, whether opening or
\* creating it is permitted, and how the device answers reads and writes
File(exists, content, access, fault) ==
    [exists |-> exists, content |-> content, access |-> access, fault |-> fault]

NoFile == File(FALSE, <<>>, "rw", "none")

\* before any call: nothing allocated, nothing held, the files as given
InitWith(files) ==
    /\ heap = [c \in MemoryIds |-> NoBlock]
    /\ arcs = [c \in CallIds |-> NoArc]
    /\ handles = [i \in Slots |-> NoHandle]
    /\ views = {}
    /\ calls = <<>>
    /\ lastRead = "none"
    /\ threads = [t \in Threads |-> IdleThread]
    /\ fs = files

Init == InitWith([p \in Paths |-> NoFile])

\* the bytes of a call whose engine answer is left open: the answer is any the
\* engine can give, whatever the bytes
OpaqueData == <<>>

Lifecycle ==
    \/ \E i \in Slots : Clone(MainThread, i)
    \/ \E i \in Slots : Drop(MainThread, i)
    \/ \E i \in Slots : \E s \in PublicSlices(handles[i]) : CopySlice(i, s)
    \/ \E s \in views : ReadView(s)

Next ==
    \/ /\ Len(calls) < MaxCalls
       /\ \E out \in qoir_decode(Len(calls) + 1, PF_RGBANonPremul, LifecycleProfile) :
             decode_from_memory(MainThread, OpaqueData, DecodeOptions_default, out)
    \/ /\ Len(calls) < MaxCalls
       /\ \E out \in qoir_encode(Len(calls) + 1, LifecycleProfile) :
             \E image \in Images({MaxDim}, {PF_RGBANonPremul}, {0}) :
                 encode_to_memory(MainThread, image, EncodeOptions_default, out)
    \/ Lifecycle

Spec == Init /\ [][Next]_vars

----------------------------------------------------------------------------
(* One call with every answer of the engine within the bounds, then the     *)
(* life of its result                                                       *)

FirstDecode ==
    /\ calls = <<>>
    /\ \E options \in DecodeOptionsSet :
          \E out \in qoir_decode(1, options.pixel_format, WideProfile) :
              decode_from_memory(MainThread, OpaqueData, options, out)

FirstMetadata ==
    /\ calls = <<>>
    /\ \E decoded \in qoir_decode_pixel_configuration(WideProfile) :
          decode_basic_metadata(MainThread, OpaqueData, decoded)

FirstEncode ==
    /\ calls = <<>>
    /\ \E image \in Images(0..MaxDim, {PF_Invalid, PF_RGB, PF_RGBANonPremul},
                           {-1, 0, MaxPad}) :
          \E out \in qoir_encode(1, WideProfile) :
              encode_to_memory(MainThread, image, EncodeOptions_default, out)

NextCall == FirstDecode \/ FirstMetadata \/ FirstEncode \/ Lifecycle

SpecCall == Init /\ [][NextCall]_vars

----------------------------------------------------------------------------
(* Clones shared between threads: Arc::drop is an atomic decrement, then,   *)
(* in the thread that saw the count at 1, the destructor                    *)

\* a thread hands a DecodedImage / EncodedBuffer to another (both are Send)
Send(t, i, u) ==
    /\ Holds(t, i)
    /\ u # t
    /\ threads' = [threads EXCEPT ![t].held = @ \ {i}, ![u].held = @ \cup {i}]
    /\ UNCHANGED <<heap, arcs, handles, views, calls, lastRead, fs>>

\* Arc::drop, first half: strong.fetch_sub(1), the old value kept
DropBegin(t, i) ==
    /\ Holds(t, i)
    /\ LET a == handles[i].result
       IN  /\ handles' = [handles EXCEPT ![i] = NoHandle]
           /\ arcs' = [arcs EXCEPT ![a].strong = @ - 1]
           /\ threads' = [threads EXCEPT
                            ![t] = [pc |-> "dropping", held |-> @.held \ {i},
                                    arc |-> a, old |-> arcs[a].strong]]
    /\ UNCHANGED <<heap, views, calls, lastRead, fs>>

\* a test of the count re-read after the decrement
SawLastReference_reload(t) == arcs[threads[t].arc].strong = 0

\* whether thread t's fetch_sub returned 1
SawLastReference(t) == Arc_drop_is_last(threads[t].old)

\* Arc::drop, second half: drop_slow runs the destructor if this thread took
\* the count from 1 to 0
DropFinish(t) ==
    /\ threads[t].pc = "dropping"
    /\ LET a == threads[t].arc
       IN  IF SawLastReference(t)
           THEN /\ arcs' = [arcs EXCEPT ![a].state = "dropped"]
                /\ heap' = OwnedResult_drop(heap, arcs[a].result)
           ELSE UNCHANGED <<arcs, heap>>
    /\ threads' = [threads EXCEPT ![t].pc = "idle", ![t].arc = 0, ![t].old = 0]
    /\ UNCHANGED <<handles, views, calls, lastRead, fs>>

NextConc ==
    \/ /\ Len(calls) < MaxCalls
       /\ \E t \in Threads :
             \E out \in qoir_decode(Len(calls) + 1, PF_RGBANonPremul, SharingProfile) :
                 decode_from_memory(t, OpaqueData, DecodeOptions_default, out)
    \/ /\ Len(calls) < MaxCalls
       /\ \E t \in Threads :
             \E out \in qoir_encode(Len(calls) + 1, SharingProfile) :
                 \E image \in Images({MaxDim}, {PF_RGBANonPremul}, {0}) :
                     encode_to_memory(t, image, EncodeOptions_default, out)
    \/ \E t \in Threads : \E i \in Slots : Clone(t, i)
    \/ \E t, u \in Threads : \E i \in Slots : Send(t, i, u)
    \/ \E t \in Threads : \E i \in Slots : DropBegin(t, i)
    \/ \E t \in Threads : DropFinish(t)

SpecConc == Init /\ [][NextConc]_vars

----------------------------------------------------------------------------
(* Round trips through the codec: the caller encodes an image or decodes   *)
(* bytes it was given, then decodes what it encoded, reads the header of   *)
(* what it decoded, or encodes again what it decoded                       *)

\* whether a slice lies within a live block
InBlock(s) ==
    /\ s.ptr # NULL
    /\ heap[s.ptr.blk].state = "live"
    /\ s.ptr.off + s.len <= heap[s.ptr.blk].size

\* the bytes of a slice that lies within a live block
SliceBytes(s) ==
    SubSeq(heap[s.ptr.blk].bytes, s.ptr.off + 1, s.ptr.off + s.len)

\* what a byte read past the end of a block can be
Garbage == {0, 255}

\* slice.to_vec(): the bytes a copy of the slice can hold; the bytes past the
\* end of the block are whatever lies there
to_vec(s) ==
    IF s.len = 0 THEN {<<>>}
    ELSE IF s.ptr = NULL \/ heap[s.ptr.blk].state # "live" THEN {}
    ELSE IF InBlock(s) THEN {SliceBytes(s)}
    ELSE { [i \in 1..s.len |->
              IF s.ptr.off + i <= heap[s.ptr.blk].size
              THEN heap[s.ptr.blk].bytes[s.ptr.off + i] ELSE g] :
           g \in Garbage }

EncodedSlots == { i \in LiveSlots : handles[i].kind = "EncodedBuffer" }

DecodedSlots == { i \in LiveSlots : handles[i].kind = "DecodedImage" }

\* the blob a caller attaches as the k-th metadata field
BlobBytes(k) == [i \in 1..MaxBlob |-> 200 + 10 * k + i]

TripBlob(k) == {NoVec, SomeVec(BlobBytes(k))}

TripEncodeOptions ==
    { EncodeOptions(x[1], x[2], x[3], x[4], x[5]) :
        x \in TripBlob(1) \X TripBlob(2) \X TripBlob(3) \X TripBlob(4) \X {0, 1} }
    \cup {EncodeOptions(NoVec, NoVec, SomeVec(<<>>), NoVec, 0)}

TripImages ==
    { create_dummy_image(x[1], x[2], x[3], x[4]) :
        x \in (1..MaxDim) \X (1..MaxDim) \X {PF_RGBANonPremul, PF_RGB}
                \X {0, MaxPad} }

\* the engine's answer to what encode_to_memory hands it for image and options
EngineEncode(c, image, options) ==
    run_encode(c, qoir_pixel_buffer_new(image), qoir_encode_options_new(options))

\* the engine's answer to what decode_from_memory hands it for data and options
EngineDecode(c, data, options) ==
    run_decode(c, data, qoir_decode_options_new(options))

\* streams made elsewhere, of several stored formats
ExternalStreams ==
    { EngineEncode(1, create_dummy_image(x[1], 1, x[2], 0),
                   EncodeOptions_default).block.bytes :
        x \in {1, MaxDim} \X {PF_RGBANonPremul, PF_BGRANonPremul, PF_RGB} }

\* bytes the caller was given: streams, a stream cut short, and bytes that are
\* no stream
TripInputs ==
    ExternalStreams
    \cup { SubSeq(d, 1, Len(d) - 1) : d \in ExternalStreams }
    \cup {<<0, 1, 2, 3, 4, 5>>, <<>>}

TripEncode ==
    /\ calls = <<>>
    /\ \E image \in TripImages : \E options \in TripEncodeOptions :
          encode_to_memory(MainThread, image, options,
                           EngineEncode(1, image, options))

\* the clip rectangles a caller sets: none, the zero rectangle, the first
\* pixel
TripRects ==
    {NoRect, SomeRect(qoir_rectangle_zero), SomeRect(Rectangle(0, 0, 1, 1))}

\* the options the caller decodes its input with
TripDecodeOptions ==
    DecodeOptionsSet
    \cup { DecodeOptions(PF_RGBANonPremul, x[1], x[2], x[3], 0) :
             x \in TripRects \X TripRects \X {0, 1} }

TripDecodeInput ==
    /\ calls = <<>>
    /\ \E data \in TripInputs : \E options \in TripDecodeOptions :
          decode_from_memory(MainThread, data, options,
                             EngineDecode(1, data, options))

TripDecodeBuffer ==
    /\ Len(calls) < MaxTripCalls
    /\ \E i \in EncodedSlots : \E options \in DecodeOptionsSet :
          LET data == SliceBytes(handles[i].data)
          IN  decode_from_memory(MainThread, data, options,
                                 EngineDecode(Len(calls) + 1, data, options))

\* the header of bytes the caller decoded before, or holds encoded
TripMetadata ==
    /\ Len(calls) < MaxTripCalls
    /\ \E data \in { calls[k].arg :
                       k \in { j \in 1..Len(calls) :
                                 calls[j].op = "decode_from_memory" } }
                   \cup { SliceBytes(handles[i].data) : i \in EncodedSlots } :
          decode_basic_metadata(MainThread, data, run_read_metadata(data))

\* the caller copies the decoded pixels and encodes them again, losslessly,
\* with the decoded width, height, format and stride
Reencode ==
    /\ Len(calls) < MaxTripCalls
    /\ \E i \in DecodedSlots : \E px \in to_vec(handles[i].image.pixels) :
          LET image == Image(px, handles[i].image.width, handles[i].image.height,
                             handles[i].image.pixel_format,
                             handles[i].image.stride_in_bytes)
          IN  encode_to_memory(MainThread, image, EncodeOptions_default,
                               EngineEncode(Len(calls) + 1, image,
                                            EncodeOptions_default))

NextTrip ==
    \/ TripEncode
    \/ TripDecodeInput
    \/ TripDecodeBuffer
    \/ TripMetadata
    \/ Reencode

SpecTrip == Init /\ [][NextTrip]_vars

----------------------------------------------------------------------------
(* The operations that read or write a file or a stream around the codec   *)

\* no record: the engine was not invoked
NoRecord == <<>>

\* a call that returns before it reaches the engine
Early(ret) ==
    [ret |-> ret, arc |-> NoArc, handle |-> NoHandle, heap |-> heap,
     raw |-> NoRecord, engine |-> 0]

\* a Read: the bytes it holds and how its reads go: all succeed ("none"), one
\* fails with ErrorKind::Interrupted and succeeds when repeated ("intr"), or
\* one fails for good ("error")
Reader(content, fault) == [content |-> content, fault |-> fault]

\* a read_to_end that takes whatever it got for the whole content
read_to_end_lenient(src) == [ok |-> TRUE, data |-> src.content]

\* a read_to_end that gives up at the first failed read of any kind
read_to_end_strict(src) ==
    IF src.fault = "none" THEN [ok |-> TRUE, data |-> src.content]
    ELSE [ok |-> FALSE, data |-> <<>>]

\* BufReader::read_to_end(&mut data): reads until end of stream, repeats a
\* read that was interrupted, and fails when a read fails otherwise
read_to_end(src) ==
    IF src.fault = "error" THEN [ok |-> FALSE, data |-> <<>>]
    ELSE [ok |-> TRUE, data |-> src.content]

\* std::fs::File::open(path)
File_open(file) == file.exists /\ file.access = "rw"

\* std::fs::File::create(path): the file is created or truncated
File_create(file) == file.access = "rw"

\* a Write: whether it fails, and how many bytes it accepts before it does
Writer(fails, room) == [fails |-> fails, room |-> room]

\* the Write a created file is
FileWriter(file) == Writer(file.fault = "error", 0)

\* inner.write_all(data): what the stream received and whether all was taken
inner_write_all(writer, data) ==
    IF writer.fails /\ Len(data) > writer.room
    THEN [ok |-> FALSE, received |-> SubSeq(data, 1, writer.room)]
    ELSE [ok |-> TRUE, received |-> data]

\* BufWriter::write_all(data) on a fresh BufWriter: data shorter than the
\* buffer is kept in the buffer, other data goes straight to the stream
BufWriter_write_all(writer, data) ==
    IF Len(data) < BufCapacity
    THEN [ok |-> TRUE, buffered |-> data, received |-> <<>>]
    ELSE [ok |-> inner_write_all(writer, data).ok, buffered |-> <<>>,
          received |-> inner_write_all(writer, data).received]

\* Drop for BufWriter: the buffer is flushed to the stream and the result of
\* the flush is discarded; what the stream has received after it
BufWriter_drop(writer, w) ==
    IF w.buffered = <<>> THEN w.received
    ELSE inner_write_all(writer, w.buffered).received

\* an encode_to_writer that writes the first byte of a stream before the
\* engine has answered
encode_to_writer_streaming(c, slot, image, options, writer) ==
    [out |-> encode_to_memory_returns(c, slot, EngineEncode(c, image, options)),
     received |-> <<QOIR_MAGIC>>]

\* encode_to_writer(image, options, writer) as call c: the outcome and what
\* the stream received
encode_to_writer_returns(c, slot, image, options, writer) ==
    LET r == encode_to_memory_returns(c, slot, EngineEncode(c, image, options))
    IN  IF ~r.ret.ok THEN [out |-> r, received |-> <<>>]
        ELSE LET data == SubSeq(r.heap[r.handle.data.ptr.blk].bytes,
                                r.handle.data.ptr.off + 1,
                                r.handle.data.ptr.off + r.handle.data.len)
                 w == BufWriter_write_all(writer, data)
             IN  IF w.ok
                 THEN [out |-> r, received |-> BufWriter_drop(writer, w)]
                 ELSE \* `?` returns IoError and drops encoded_buffer
                      [out |-> [r EXCEPT
                                  !.ret = Err("IoError", <<>>),
                                  !.handle = NoHandle,
                                  !.arc = IF Arc_drop_is_last(r.arc.strong)
                                          THEN [state |-> "dropped", strong |-> 0,
                                                result |-> r.raw]
                                          ELSE r.arc,
                                  !.heap = IF Arc_drop_is_last(r.arc.strong)
                                           THEN OwnedResult_drop(r.heap, r.raw)
                                           ELSE r.heap],
                       received |-> BufWriter_drop(writer, w)]

\* decode(path, options) called by thread t
decode(t, path, options) ==
    LET c == Len(calls) + 1
        io == [kind |-> "file", path |-> path, file |-> fs[path]]
        read == read_to_end(fs[path])
    IN  /\ IF ~File_open(fs[path])
           THEN Return(t, "decode", <<>>, options, io,
                       Early(Err("FileNotFound", <<>>)))
           ELSE IF ~read.ok
           THEN Return(t, "decode", <<>>, options, io, Early(Err("IoError", <<>>)))
           ELSE Return(t, "decode", read.data, options, io,
                       decode_from_memory_returns(
                           c, NewSlot, EngineDecode(c, read.data, options)))
        /\ UNCHANGED fs

\* decode_from_reader(reader, options) called by thread t
decode_from_reader(t, reader, options) ==
    LET c == Len(calls) + 1
        io == [kind |-> "reader", reader |-> reader]
        read == read_to_end(reader)
    IN  /\ IF ~read.ok
           THEN Return(t, "decode_from_reader", <<>>, options, io,
                       Early(Err("IoError", <<>>)))
           ELSE Return(t, "decode_from_reader", read.data, options, io,
                       decode_from_memory_returns(
                           c, NewSlot, EngineDecode(c, read.data, options)))
        /\ UNCHANGED fs

\* encode_to_writer(image, options, writer) called by thread t
encode_to_writer(t, image, options, writer) ==
    LET r == encode_to_writer_returns(Len(calls) + 1, NewSlot, image, options,
                                      writer)
    IN  /\ Return(t, "encode_to_writer", image, options,
                  [kind |-> "writer", writer |-> writer, received |-> r.received],
                  r.out)
        /\ UNCHANGED fs

\* an encode_to_file that encodes first and creates the file only for an
\* engine that succeeded
encode_to_file_encode_first(t, image, options, path) ==
    LET r == encode_to_writer_returns(Len(calls) + 1, NewSlot, image, options,
                                      FileWriter(fs[path]))
        io == [kind |-> "file", path |-> path, file |-> fs[path]]
    IN  IF ~r.out.raw.status_message.null
        THEN /\ Return(t, "encode_to_file", image, options, io, r.out)
             /\ UNCHANGED fs
        ELSE IF ~File_create(fs[path])
        THEN /\ Return(t, "encode_to_file", image, options, io,
                       Early(Err("IoError", <<>>)))
             /\ UNCHANGED fs
        ELSE /\ Return(t, "encode_to_file", image, options, io, r.out)
             /\ fs' = [fs EXCEPT ![path] =
                         File(TRUE, r.received, "rw", fs[path].fault)]

\* encode_to_file(image, options, path) called by thread t
encode_to_file(t, image, options, path) ==
    LET r == encode_to_writer_returns(Len(calls) + 1, NewSlot, image, options,
                                      FileWriter(fs[path]))
        io == [kind |-> "file", path |-> path, file |-> fs[path]]
    IN  IF ~File_create(fs[path])
        THEN /\ Return(t, "encode_to_file", image, options, io,
                       Early(Err("IoError", <<>>)))
             /\ UNCHANGED fs
        ELSE /\ Return(t, "encode_to_file", image, options, io, r.out)
             /\ fs' = [fs EXCEPT ![path] =
                         File(TRUE, r.received, "rw", fs[path].fault)]

\* the images the caller encodes: one whose stream is shorter than the
\* BufWriter's buffer, one whose stream is not
IoImages ==
    {create_dummy_image(1, 1, PF_RGB, 0),
     create_dummy_image(MaxDim, MaxDim, PF_RGBANonPremul, 0)}

\* EncodeOptions the engine accepts, and one whose lossiness it rejects
IoEncodeOptions ==
    {EncodeOptions_default,
     EncodeOptions(NoVec, NoVec, NoVec, NoVec, QOIR_MAX_LOSSINESS + 1)}

\* the stream of the small image
SmallStream ==
    EngineEncode(1, create_dummy_image(1, 1, PF_RGB, 0),
                 EncodeOptions_default).block.bytes

IoContents == {SmallStream, <<0, 1, 2, 3, 4, 5>>}

IoReaders ==
    { Reader(x[1], x[2]) : x \in IoContents \X {"none", "intr", "error"} }

IoWriters == {Writer(FALSE, 0), Writer(TRUE, 0), Writer(TRUE, MaxRoom)}

\* what can be at a path before the first call
IoFiles ==
    {NoFile, File(FALSE, <<>>, "denied", "none"),
     File(TRUE, SmallStream, "denied", "none"),
     File(TRUE, <<0, 1, 2, 3, 4, 5>>, "rw", "none")}
    \cup { File(TRUE, SmallStream, "rw", f) : f \in {"none", "intr", "error"} }
    \cup {File(FALSE, <<>>, "rw", "error")}

InitIo == \E files \in [Paths -> IoFiles] : InitWith(files)

IoDecode ==
    /\ Len(calls) < MaxIoCalls
    /\ \E path \in Paths : decode(MainThread, path, DecodeOptions_default)

IoDecodeFromReader ==
    /\ Len(calls) < MaxIoCalls
    /\ \E reader \in IoReaders :
          decode_from_reader(MainThread, reader, DecodeOptions_default)

IoEncodeToWriter ==
    /\ Len(calls) < MaxIoCalls
    /\ \E image \in IoImages : \E options \in IoEncodeOptions :
          \E writer \in IoWriters :
              encode_to_writer(MainThread, image, options, writer)

IoEncodeToFile ==
    /\ Len(calls) < MaxIoCalls
    /\ \E image \in IoImages : \E options \in IoEncodeOptions :
          \E path \in Paths : encode_to_file(MainThread, image, options, path)

IoDecodeFromMemory ==
    /\ Len(calls) < MaxIoCalls
    /\ \E data \in IoContents :
          decode_from_memory(MainThread, data, DecodeOptions_default,
                             EngineDecode(Len(calls) + 1, data,
                                          DecodeOptions_default))

IoDecodeBasicMetadata ==
    /\ Len(calls) < MaxIoCalls
    /\ \E data \in IoContents :
          decode_basic_metadata(MainThread, data, run_read_metadata(data))

IoEncodeToMemory ==
    /\ Len(calls) < MaxIoCalls
    /\ \E image \in IoImages : \E options \in IoEncodeOptions :
          encode_to_memory(MainThread, image, options,
                           EngineEncode(Len(calls) + 1, image, options))

NextIo ==
    \/ IoDecode
    \/ IoDecodeFromReader
    \/ IoEncodeToWriter
    \/ IoEncodeToFile
    \/ IoDecodeFromMemory
    \/ IoDecodeBasicMetadata
    \/ IoEncodeToMemory

SpecIo == InitIo /\ [][NextIo]_vars

----------------------------------------------------------------------------
(* Encoding and the memory around it: the caller encodes images it owns,   *)
(* with and without metadata blobs, to memory, to a stream or to a file,   *)
(* and clones and drops what it gets                                       *)

\* no blobs, two blobs, and options the engine rejects
OwnEncodeOptions ==
    {EncodeOptions_default,
     EncodeOptions(SomeVec(BlobBytes(1)), NoVec, SomeVec(BlobBytes(3)), NoVec, 0),
     EncodeOptions(NoVec, NoVec, NoVec, NoVec, QOIR_MAX_LOSSINESS + 1)}

OwnWriters == {Writer(FALSE, 0), Writer(TRUE, MaxRoom)}

\* a path where a file can be created, one where none can
OwnFiles == {NoFile, File(FALSE, <<>>, "denied", "none")}

InitOwn == \E files \in [Paths -> OwnFiles] : InitWith(files)

OwnEncodeToMemory ==
    /\ Len(calls) < MaxOwnCalls
    /\ \E image \in IoImages : \E options \in OwnEncodeOptions :
          encode_to_memory(MainThread, image, options,
                           EngineEncode(Len(calls) + 1, image, options))

OwnEncodeToWriter ==
    /\ Len(calls) < MaxOwnCalls
    /\ \E image \in IoImages : \E options \in OwnEncodeOptions :
          \E writer \in OwnWriters :
              encode_to_writer(MainThread, image, options, writer)

OwnEncodeToFile ==
    /\ Len(calls) < MaxOwnCalls
    /\ \E image \in IoImages : \E options \in OwnEncodeOptions :
          \E path \in Paths : encode_to_file(MainThread, image, options, path)

NextOwn ==
    \/ OwnEncodeToMemory
    \/ OwnEncodeToWriter
    \/ OwnEncodeToFile
    \/ \E i \in Slots : Clone(MainThread, i)
    \/ \E i \in Slots : Drop(MainThread, i)

SpecOwn == InitOwn /\ [][NextOwn]_vars

----------
(* Claims *)

\* C1: the block of a successful call is freed exactly once, at the drop of
\* the last clone: live and never freed while a clone exists, freed once as
\* soon as none is left.
C1_FreedOnceAtLastDrop ==
    \A a \in CallIds :
        OwnsMemory(a) =>
            /\ BlockOf(a).frees <= 1
            /\ HandlesOf(a) # {} =>
                  BlockOf(a).state = "live" /\ BlockOf(a).frees = 0
            /\ HandlesOf(a) = {} =>
                  BlockOf(a).state = "freed" /\ BlockOf(a).frees = 1

\* one result was cloned and is still shared, another lost all its clones
C1_Witness ==
    \E a, b \in CallIds :
        /\ OwnsMemory(a) /\ arcs[a].strong >= 2
        /\ OwnsMemory(b) /\ arcs[b].state = "dropped" /\ BlockOf(b).frees = 1

\* C2: no slice copied out of a public field can be read once every clone
\* is dropped and the block released.
C2_NoSliceReadableAfterRelease ==
    /\ \A s \in views :
          (s.len > 0 /\ s.ptr # NULL) => heap[s.ptr.blk].state # "freed"
    /\ lastRead # "released"

\* C3: while a clone is live its block is unreleased, holds the bytes the
\* engine wrote, and the clone's slices are those built from the record.
C3_CloneKeepsBlock ==
    \A i \in LiveSlots :
        LET a == handles[i].result
        IN  /\ arcs[a].state = "live"
            /\ handles[i] = IF handles[i].kind = "DecodedImage"
                            THEN DecodedImage_new(a, arcs[a].result)
                            ELSE EncodedBuffer_new(a, arcs[a].result)
            /\ OwnsMemory(a) =>
                  /\ BlockOf(a).state = "live"
                  /\ BlockOf(a).bytes = EngineBytes(a, BlockOf(a).size)

\* the original of the first call is dropped, its clone lives on alone
C3_Witness ==
    /\ Len(calls) = 1
    /\ handles[1] = NoHandle
    /\ handles[2] # NoHandle
    /\ OwnsMemory(1)
    /\ arcs[1].strong = 1
    /\ BlockOf(1).size > 0

\* C4: with clones dropped by several threads at once, the count equals the
\* number of live clones, the block is live while any thread holds a clone,
\* is freed at most once, and is freed by the one thread whose decrement
\* took the count from 1 to 0.
C4_ConcurrentReleaseOnce ==
    \A a \in CallIds :
        OwnsMemory(a) =>
            LET last == { t \in Threads :
                            /\ threads[t].pc = "dropping"
                            /\ threads[t].arc = a
                            /\ threads[t].old = 1 }
                holders == { t \in Threads :
                               \E i \in threads[t].held : handles[i].result = a }
            IN  /\ BlockOf(a).frees <= 1
                /\ arcs[a].strong = Cardinality(HandlesOf(a))
                /\ holders # {} => BlockOf(a).state = "live"
                /\ (HandlesOf(a) = {} /\ BlockOf(a).state = "live") =>
                      Cardinality(last) = 1
                /\ BlockOf(a).state = "freed" =>
                      (last = {} /\ HandlesOf(a) = {} /\ BlockOf(a).frees = 1)

\* two threads are inside Arc::drop of the same owned result at once
C4_Witness ==
    \E t, u \in Threads :
        /\ t # u
        /\ threads[t].pc = "dropping" /\ threads[u].pc = "dropping"
        /\ threads[t].arc = threads[u].arc
        /\ OwnsMemory(threads[t].arc)

CallsMade == 1..Len(calls)

EngineCalls == { c \in CallsMade : calls[c].op \in {"decode_from_memory", "encode_to_memory"} }

Failed(c) == ~calls[c].ret.ok

\* C5: a failed decode_from_memory / encode_to_memory whose record had memory
\* attached has released that memory, once, by the time it returned.
C5_FailureReleasesMemory ==
    \A c \in EngineCalls :
        (Failed(c) /\ calls[c].raw.owned_memory # NULL) =>
            heap[c].state = "freed" /\ heap[c].frees = 1

FailureKind(op) ==
    IF op = "encode_to_memory" THEN "EncodingFailed" ELSE "DecodingFailed"

\* C6: a call fails, with DecodingFailed / EncodingFailed, exactly when the
\* record carries a message; then no owned result and no slice was built from
\* the record, and every owned result wraps a record without a message.
C6_MessageIsDiscriminant ==
    /\ \A c \in CallsMade :
          /\ Failed(c) <=> ~calls[c].raw.status_message.null
          /\ Failed(c) => calls[c].ret.err = FailureKind(calls[c].op)
          /\ Failed(c) => arcs[c].state = "none"
          /\ (c \in EngineCalls /\ ~Failed(c)) =>
                /\ arcs[c].state # "none"
                /\ arcs[c].result = calls[c].raw
    /\ \A i \in LiveSlots :
          /\ arcs[handles[i].result].state = "live"
          /\ arcs[handles[i].result].result.status_message.null

\* a record with both a message and memory attached was returned as an error
C6_Witness ==
    \E c \in EngineCalls :
        /\ ~calls[c].raw.status_message.null
        /\ calls[c].raw.owned_memory # NULL
        /\ Failed(c)

\* C7: the text of DecodingFailed / EncodingFailed is the status message,
\* byte for byte.
C7_MessageVerbatim ==
    \A c \in CallsMade :
        Failed(c) => calls[c].ret.msg = calls[c].raw.status_message.bytes

\* C7 as amended: a status message that is valid UTF-8 is carried byte for
\* byte; one that is not comes out changed, as valid UTF-8.
C7_MessageVerbatimIfUtf8 ==
    \A c \in CallsMade :
        Failed(c) =>
            LET m == calls[c].raw.status_message.bytes
            IN  /\ IsUtf8(m) => calls[c].ret.msg = m
                /\ ~IsUtf8(m) =>
                      (calls[c].ret.msg # m /\ IsUtf8(calls[c].ret.msg))

\* a call failed with a two-byte UTF-8 character for its message, and the
\* error carries both bytes
C7_Witness ==
    \E c \in CallsMade :
        /\ Failed(c)
        /\ calls[c].raw.status_message.bytes = <<195, 169>>
        /\ calls[c].ret.msg = <<195, 169>>

\* the shape invariants of an Image
ShapeValid(image) ==
    /\ image.pixel_format # PF_Invalid
    /\ image.stride_in_bytes >= image.width * bytes_per_pixel(image.pixel_format)
    /\ image.pixels_len >= image.stride_in_bytes * image.height

\* C8: an Image that breaks a shape invariant is rejected with
\* InvalidParameter and the engine is not invoked for it.
C8_InvalidShapeRejected ==
    \A c \in CallsMade :
        (calls[c].op = "encode_to_memory" /\ ~ShapeValid(calls[c].arg)) =>
            /\ calls[c].ret = Err("InvalidParameter", <<>>)
            /\ calls[c].engine = 0

\* C9: the pixel view of a decoded image is height * stride_in_bytes long.
C9_PixelsLenIsHeightTimesStride ==
    \A i \in DecodedSlots :
        handles[i].image.pixels.len =
            handles[i].image.height * handles[i].image.stride_in_bytes

\* C10: the pixel view starts at the engine's pixel buffer and ends within its
\* stride_in_bytes * height bytes; the encoded view is dst_len bytes at dst_ptr.
C10_ViewsWithinAllocation ==
    \A i \in LiveSlots :
        LET rec == arcs[handles[i].result].result
        IN  IF handles[i].kind = "DecodedImage"
            THEN /\ handles[i].image.pixels.ptr = rec.dst_pixbuf.data
                 /\ handles[i].image.pixels.len <=
                       rec.dst_pixbuf.stride_in_bytes
                           * rec.dst_pixbuf.pixcfg.height_in_pixels
            ELSE handles[i].data = Slice(rec.dst_ptr, rec.dst_len)

\* the handle a successful call returned
HandleOf(c) == handles[calls[c].ret.handle]

Succeeded(c, op) == calls[c].op = op /\ calls[c].ret.ok

\* call d decoded, with success, the stream call e encoded
DecodesStreamOf(d, e) ==
    /\ Succeeded(e, "encode_to_memory")
    /\ Succeeded(d, "decode_from_memory")
    /\ e < d
    /\ heap[e].state = "live"
    /\ calls[d].arg = heap[e].bytes

\* a view that reads as exactly these bytes
ViewIs(view, bytes) ==
    /\ view.len = Len(bytes)
    /\ view.len > 0 => (InBlock(view) /\ SliceBytes(view) = bytes)

\* C11: an image encoded with lossiness 0 and decoded into the same pixel
\* format comes back with the same width, height and format and with pixels
\* of the same length and the same bytes.
C11_LosslessRoundTrip ==
    \A e, d \in CallsMade :
        ( /\ DecodesStreamOf(d, e)
          /\ calls[e].options.lossiness = 0
          /\ calls[d].options.pixel_format = calls[e].arg.pixel_format ) =>
            /\ HandleOf(d).image.width = calls[e].arg.width
            /\ HandleOf(d).image.height = calls[e].arg.height
            /\ HandleOf(d).image.pixel_format = calls[e].arg.pixel_format
            /\ ViewIs(HandleOf(d).image.pixels, calls[e].arg.pixels)

\* call e encoded again, losslessly, what call d decoded: the decoded width,
\* height, format and stride, and a copy of the decoded pixels
ReencodesImageOf(e, d) ==
    /\ Succeeded(d, "decode_from_memory")
    /\ Succeeded(e, "encode_to_memory")
    /\ d < e
    /\ calls[e].options.lossiness = 0
    /\ calls[e].arg.width = HandleOf(d).image.width
    /\ calls[e].arg.height = HandleOf(d).image.height
    /\ calls[e].arg.pixel_format = HandleOf(d).image.pixel_format
    /\ calls[e].arg.stride_in_bytes = HandleOf(d).image.stride_in_bytes
    /\ calls[e].arg.pixels \in to_vec(HandleOf(d).image.pixels)

\* two views that read as the same bytes
ViewsEqual(v, w) ==
    /\ v.len = w.len
    /\ v.len > 0 =>
          (InBlock(v) /\ InBlock(w) /\ SliceBytes(v) = SliceBytes(w))

\* C12: a lossless stream decoded, the decoded view encoded again with
\* lossiness 0 and the result decoded again gives the width, height and
\* format of the first decode and a pixel view equal to its pixel view.
C12_ReencodeIdempotent ==
    \A d1, e, d2 \in CallsMade :
        ( /\ ReencodesImageOf(e, d1)
          /\ DecodesStreamOf(d2, e)
          /\ ParseStream(calls[d1].arg).lossiness = 0
          /\ calls[d2].options = calls[d1].options ) =>
            /\ HandleOf(d2).image.width = HandleOf(d1).image.width
            /\ HandleOf(d2).image.height = HandleOf(d1).image.height
            /\ HandleOf(d2).image.pixel_format = HandleOf(d1).image.pixel_format
            /\ ViewsEqual(HandleOf(d2).image.pixels, HandleOf(d1).image.pixels)

\* a blob given to encode comes back in a field of the decoded image: Some
\* of the same bytes for a non-empty blob, None for None
CarriedThrough(given, field) ==
    /\ (given.some /\ given.bytes # <<>>) =>
          /\ field.some
          /\ InBlock(Slice(field.ptr, field.len))
          /\ SliceBytes(Slice(field.ptr, field.len)) = given.bytes
    /\ ~given.some => ~field.some

\* C13: each of the four metadata blobs given to encode_to_memory comes back
\* from decoding the result, in its own field: Some of the same bytes when
\* it was Some and non-empty, None when it was None.
C13_MetadataCarriedThrough ==
    \A e, d \in CallsMade :
        DecodesStreamOf(d, e) =>
            /\ CarriedThrough(calls[e].options.cicp_profile, HandleOf(d).cic_profile)
            /\ CarriedThrough(calls[e].options.icc_profile, HandleOf(d).icc_profile)
            /\ CarriedThrough(calls[e].options.exif, HandleOf(d).exif)
            /\ CarriedThrough(calls[e].options.xmp, HandleOf(d).xmp)

\* an image encoded with exif and a CICP profile but no xmp and no ICC
\* profile was decoded, and the decoded image holds just those two
C13_Witness ==
    \E e, d \in CallsMade :
        /\ DecodesStreamOf(d, e)
        /\ calls[e].options.exif = SomeVec(BlobBytes(3))
        /\ calls[e].options.cicp_profile = SomeVec(BlobBytes(1))
        /\ ~calls[e].options.xmp.some
        /\ ~calls[e].options.icc_profile.some
        /\ HandleOf(d).exif.some /\ HandleOf(d).cic_profile.some
        /\ ~HandleOf(d).xmp.some /\ ~HandleOf(d).icc_profile.some

\* C14: for bytes that decode with the default options, decode_basic_metadata
\* of the same bytes returns the width, height and pixel format of the
\* decoded image.
C14_BasicMetadataAgrees ==
    \A d, m \in CallsMade :
        ( /\ Succeeded(d, "decode_from_memory")
          /\ calls[d].options = DecodeOptions_default
          /\ calls[m].op = "decode_basic_metadata"
          /\ calls[m].arg = calls[d].arg ) =>
            /\ calls[m].ret.ok
            /\ calls[m].ret.value = <<HandleOf(d).image.width,
                                      HandleOf(d).image.height,
                                      HandleOf(d).image.pixel_format>>

\* C15: decode_from_memory of bytes the engine rejects returns
\* Err(DecodingFailed(_)), and nothing else: no owned result, no DecodedImage
\* and no block is left by the call.
C15_RejectedBytesFail ==
    \A c \in CallsMade :
        (calls[c].op = "decode_from_memory" /\ ~StreamValid(calls[c].arg)) =>
            /\ ~calls[c].ret.ok
            /\ calls[c].ret.err = "DecodingFailed"
            /\ calls[c].ret.msg # <<>>
            /\ arcs[c] = NoArc
            /\ HandlesOf(c) = {}
            /\ heap[c] = NoBlock

\* the six bytes 0..5 were decoded and the call returned DecodingFailed
C15_Witness ==
    \E c \in CallsMade :
        /\ calls[c].op = "decode_from_memory"
        /\ calls[c].arg = <<0, 1, 2, 3, 4, 5>>
        /\ calls[c].ret.err = "DecodingFailed"
        /\ LiveSlots = {}

\* the call left nothing behind: no owned result, no handle, no block
LeftNothing(c) == arcs[c] = NoArc /\ HandlesOf(c) = {} /\ heap[c] = NoBlock

\* the value decode_from_memory returns to call c for data and options
DelegatedReturn(c, data, options) ==
    decode_from_memory_returns(c, calls[c].ret.handle,
                               EngineDecode(c, data, options)).ret

\* C16: decode(path, options) returns FileNotFound when the file cannot be
\* opened and IoError when reading it fails, without invoking the engine;
\* when the file was read to its end it returns what decode_from_memory
\* returns for the file's content, the engine invoked on that content.
C16_DecodePathErrors ==
    \A c \in CallsMade :
        calls[c].op = "decode" =>
            LET f == calls[c].io.file
            IN  IF ~f.exists \/ f.access # "rw"
                THEN /\ calls[c].ret = Err("FileNotFound", <<>>)
                     /\ calls[c].engine = 0
                     /\ LeftNothing(c)
                ELSE IF f.fault = "error"
                THEN /\ calls[c].ret = Err("IoError", <<>>)
                     /\ calls[c].engine = 0
                     /\ LeftNothing(c)
                ELSE /\ calls[c].engine = 1
                     /\ calls[c].arg = f.content
                     /\ calls[c].raw =
                           EngineDecode(c, f.content, calls[c].options).rec
                     /\ calls[c].ret =
                           DelegatedReturn(c, f.content, calls[c].options)

\* decode of a path without a file returned FileNotFound, and once a file
\* was written there decode of the same path reached the engine
C16_Witness ==
    \E c, d \in CallsMade :
        /\ c < d
        /\ calls[c].op = "decode" /\ calls[d].op = "decode"
        /\ calls[c].io.path = calls[d].io.path
        /\ ~calls[c].io.file.exists
        /\ calls[c].ret.err = "FileNotFound"
        /\ calls[d].engine = 1 /\ calls[d].ret.ok

\* the stream the engine made for the image and options of call c
StreamOf(c) == EngineEncode(c, calls[c].arg, calls[c].options).block.bytes

\* the engine encoded the image of call c
Encoded(c) == calls[c].raw # NoRecord /\ calls[c].raw.status_message.null

\* C17: encode_to_writer returns IoError whenever the stream did not take all
\* of the encoded bytes, and when it returns Ok the stream has received
\* exactly the bytes of the returned buffer's data.
C17_WriteFailureSurfaced ==
    \A c \in CallsMade :
        (calls[c].op = "encode_to_writer" /\ Encoded(c)) =>
            /\ calls[c].io.received # StreamOf(c) =>
                  calls[c].ret = Err("IoError", <<>>)
            /\ calls[c].ret.ok =>
                  calls[c].io.received = SliceBytes(HandleOf(c).data)

\* C18: encode_to_file returns IoError when the file cannot be created, and
\* otherwise what encode_to_writer returns for the file; after a call that
\* returned Ok the file holds the bytes of the returned buffer's data.
C18_EncodeToFile ==
    \A c \in CallsMade :
        calls[c].op = "encode_to_file" =>
            LET f == calls[c].io.file
            IN  /\ f.access # "rw" =>
                      (calls[c].ret = Err("IoError", <<>>) /\ calls[c].engine = 0)
                /\ f.access = "rw" =>
                      calls[c].ret =
                          encode_to_writer_returns(
                              c, calls[c].ret.handle, calls[c].arg,
                              calls[c].options, FileWriter(f)).out.ret
                /\ (calls[c].ret.ok /\ c = Len(calls)) =>
                      fs[calls[c].io.path].content = SliceBytes(HandleOf(c).data)

\* decode_from_reader call c handed the engine the whole content of its
\* reader and returned what decode_from_memory returns for it
DecodedWholeStream(c) ==
    LET r == calls[c].io.reader
    IN  /\ calls[c].engine = 1
        /\ calls[c].arg = r.content
        /\ calls[c].raw = EngineDecode(c, r.content, calls[c].options).rec
        /\ calls[c].ret = DelegatedReturn(c, r.content, calls[c].options)

\* decode_from_reader call c returned IoError and the engine was not invoked
FailedBeforeEngine(c) ==
    /\ calls[c].ret = Err("IoError", <<>>)
    /\ calls[c].engine = 0
    /\ LeftNothing(c)

\* C19: decode_from_reader returns IoError, the engine not invoked, if any
\* read of the stream fails; otherwise the engine gets the whole stream, in
\* order, and the result of decode_from_memory on it is returned.
C19_AnyFailedReadIsIoError ==
    \A c \in CallsMade :
        calls[c].op = "decode_from_reader" =>
            IF calls[c].io.reader.fault # "none"
            THEN FailedBeforeEngine(c)
            ELSE DecodedWholeStream(c)

\* C19 as amended: decode_from_reader returns IoError, the engine not
\* invoked, if a read fails with an error other than Interrupted; a read
\* that is interrupted is repeated, and then, as when no read fails, the
\* engine gets the whole stream, in order, and the result of
\* decode_from_memory on it is returned.
C19_ReaderReadToEnd ==
    \A c \in CallsMade :
        calls[c].op = "decode_from_reader" =>
            IF calls[c].io.reader.fault = "error"
            THEN FailedBeforeEngine(c)
            ELSE DecodedWholeStream(c)

\* a stream one read of which was interrupted was decoded whole, and a
\* stream one read of which failed gave IoError
C19_Witness ==
    \E c, d \in CallsMade :
        /\ calls[c].op = "decode_from_reader"
        /\ calls[c].io.reader = Reader(SmallStream, "intr")
        /\ calls[c].ret.ok /\ calls[c].arg = SmallStream
        /\ calls[d].op = "decode_from_reader"
        /\ calls[d].io.reader.fault = "error"
        /\ calls[d].ret.err = "IoError"

PublicOperations ==
    {"decode_from_memory", "decode", "decode_from_reader",
     "decode_basic_metadata", "encode_to_memory", "encode_to_writer",
     "encode_to_file"}

DecodeCalls ==
    { c \in CallsMade :
        /\ calls[c].op \in {"decode_from_memory", "decode", "decode_from_reader"}
        /\ calls[c].raw # NoRecord }

\* the options the engine was handed for the DecodeOptions of call c
HandedDecodeOptions(c) == qoir_decode_options_new(calls[c].options)

\* the engine's options with both clip rectangles out of use
Unclipped(e) ==
    [e EXCEPT !.use_src_clip_rectangle = FALSE,
              !.use_dst_clip_rectangle = FALSE]

\* C21: the engine is handed source (destination) clipping in use exactly
\* when src_clip_rect (dst_clip_rect) is Some, and then that rectangle; an
\* unset rectangle is handed as not in use and the decode is the one without
\* clipping; offset_x, offset_y and pixel_format are handed as given.
C21_ClipRectanglesTranslated ==
    \A c \in DecodeCalls :
        LET o == calls[c].options
            e == HandedDecodeOptions(c)
        IN  /\ e.use_src_clip_rectangle <=> o.src_clip_rect.some
            /\ e.use_dst_clip_rectangle <=> o.dst_clip_rect.some
            /\ o.src_clip_rect.some => e.src_clip_rectangle = o.src_clip_rect.rect
            /\ o.dst_clip_rect.some => e.dst_clip_rectangle = o.dst_clip_rect.rect
            /\ e.offset_x = o.offset_x
            /\ e.offset_y = o.offset_y
            /\ e.pixfmt = PixelFormat_as_u32(o.pixel_format)
            /\ calls[c].raw = run_decode(c, calls[c].arg, e).rec
            /\ (~o.src_clip_rect.some /\ ~o.dst_clip_rect.some) =>
                  calls[c].raw = run_decode(c, calls[c].arg, Unclipped(e)).rec
            /\ (~o.src_clip_rect.some /\ ~o.dst_clip_rect.some
                    /\ heap[c].state = "live") =>
                  heap[c].bytes =
                      run_decode(c, calls[c].arg, Unclipped(e)).block.bytes

\* a stream two pixels wide was decoded with no source rectangle and the
\* first pixel for destination rectangle: the first pixel was written, the
\* second was not
C21_Witness ==
    \E c \in DecodeCalls :
        /\ calls[c].ret.ok
        /\ calls[c].options.src_clip_rect = NoRect
        /\ calls[c].options.dst_clip_rect = SomeRect(Rectangle(0, 0, 1, 1))
        /\ calls[c].options.offset_x = 0
        /\ arcs[c].state = "live"
        /\ arcs[c].result.dst_pixbuf.pixcfg.width_in_pixels = MaxDim
        /\ heap[c].state = "live"
        /\ SubSeq(heap[c].bytes, 1, 8) = <<0, 1, 2, 3, 0, 0, 0, 0>>

\* the codes that have a format other than Invalid
KnownCodes == {1, 2, 3, 17, 33, 34, 35, 49}

\* the calls of decode_basic_metadata the engine answered with a pixel
\* configuration
MetadataAnswers ==
    { c \in CallsMade :
        calls[c].op = "decode_basic_metadata" /\ calls[c].ret.ok }

\* C22: every code the engine answers is converted to one of the nine
\* formats, to Invalid when it is not one of the eight known codes and to the
\* format of that code when it is; the code of each format converts back to
\* the format, and the nine formats have nine codes.
C22_PixelFormatMapping ==
    /\ \A c \in MetadataAnswers :
          LET code == calls[c].raw.dst_pixcfg.pixfmt
              f == calls[c].ret.value[3]
          IN  /\ f \in PixelFormats
              /\ code \notin KnownCodes => f = PF_Invalid
              /\ code \in KnownCodes =>
                    (f # PF_Invalid /\ PixelFormat_as_u32(f) = code)
    /\ \A i \in DecodedSlots :
          PixelFormat_as_u32(handles[i].image.pixel_format) =
              arcs[handles[i].result].result.dst_pixbuf.pixcfg.pixfmt
    /\ \A f \in PixelFormats : PixelFormat_from(PixelFormat_as_u32(f)) = f
    /\ Cardinality({ PixelFormat_as_u32(f) : f \in PixelFormats }) = 9

\* the engine answered a code that is the code of BGRX in its low byte only,
\* and the call returned Invalid
C22_Witness ==
    \E c \in MetadataAnswers :
        /\ calls[c].raw.dst_pixcfg.pixfmt = 256 + PF_BGRX
        /\ calls[c].ret.value[3] = PF_Invalid

\* the encode calls that reached the engine
EncodeCalls ==
    { c \in CallsMade :
        /\ calls[c].op \in {"encode_to_memory", "encode_to_writer", "encode_to_file"}
        /\ calls[c].raw # NoRecord }

\* the options the engine was handed for the EncodeOptions of call c
HandedEncodeOptions(c) == qoir_encode_options_new(calls[c].options)

\* C23: every invocation of the engine's encode is handed a lossiness
\* in 0..7.
C23_LossinessInRange ==
    \A c \in EncodeCalls : HandedEncodeOptions(c).lossiness \in 0..7

\* the encode calls made
EncodeCallsMade == { c \in CallsMade : calls[c].op \in EncodeOperations }

\* C24: after an encode operation returned, Ok or Err, and whatever was cloned
\* or dropped since, the caller's pixel buffer is live, never freed, and holds
\* the bytes it held; the owned result owns the block the engine allocated;
\* the blobs of the EncodeOptions were released by the operation alone.
C24_InputUntouched ==
    \A c \in EncodeCallsMade :
        /\ heap[InputBlock(c)].state = "live"
        /\ heap[InputBlock(c)].frees = 0
        /\ heap[InputBlock(c)].bytes = calls[c].arg.pixels
        /\ arcs[c].state # "none" => arcs[c].result.owned_memory = Ptr(c, 0)
        /\ heap[BlobBlock(c)].frees =
              IF BlobVecs(calls[c].options) # <<>> THEN 1 ELSE 0

\* an image was encoded with blobs to a file and the EncodedBuffer dropped:
\* the engine's block is freed, the pixel buffer is live
C24_Witness ==
    \E c \in EncodeCallsMade :
        /\ calls[c].op = "encode_to_file"
        /\ calls[c].ret.ok
        /\ BlobVecs(calls[c].options) # <<>>
        /\ arcs[c].state = "dropped"
        /\ heap[c].state = "freed"
        /\ heap[InputBlock(c)].state = "live"
        /\ heap[InputBlock(c)].bytes = calls[c].arg.pixels

\* a field of a DecodedImage is None when the record's pointer is null or
\* its length is zero
AbsentAsNone(p, n, field) == (p = NULL \/ n = 0) => field = None

\* C25: a metadata field of a DecodedImage is None when the record's pointer
\* is null or its length is zero, and the pixel view and the encoded-data
\* view are not built from a null pointer.
C25_NullNeverExposed ==
    \A i \in LiveSlots :
        LET rec == arcs[handles[i].result].result
        IN  IF handles[i].kind = "DecodedImage"
            THEN /\ AbsentAsNone(rec.metadata_cicp_ptr, rec.metadata_cicp_len,
                                 handles[i].cic_profile)
                 /\ AbsentAsNone(rec.metadata_iccp_ptr, rec.metadata_iccp_len,
                                 handles[i].icc_profile)
                 /\ AbsentAsNone(rec.metadata_exif_ptr, rec.metadata_exif_len,
                                 handles[i].exif)
                 /\ AbsentAsNone(rec.metadata_xmp_ptr, rec.metadata_xmp_len,
                                 handles[i].xmp)
                 /\ handles[i].image.pixels.ptr # NULL
            ELSE handles[i].data.ptr # NULL

\* a slice that lies within block b, or points nowhere
WithinBlock(s, b) ==
    s.ptr # NULL => (s.ptr.blk = b /\ s.ptr.off + s.len <= heap[b].size)

\* C26: the pixel view and the metadata slices of a DecodedImage lie within
\* the one block its owned result owns; none points into the bytes that
\* were decoded, which decode and decode_from_reader free before they return.
C26_SlicesWithinOwnedBlock ==
    \A i \in DecodedSlots : \A s \in PublicSlices(handles[i]) :
        /\ WithinBlock(s, handles[i].result)
        /\ s.ptr # NULL => s.ptr.blk \in CallIds
        /\ s.ptr # NULL =>
              s.ptr.blk = arcs[handles[i].result].result.owned_memory.blk

\* every owned result owns the block its own call made the engine allocate,
\* and no two own the same
FreshBlocks ==
    \A a \in CallIds :
        OwnsMemory(a) =>
            /\ arcs[a].result.owned_memory = Ptr(a, 0)
            /\ \A b \in CallIds \ {a} :
                  OwnsMemory(b) =>
                      arcs[b].result.owned_memory # arcs[a].result.owned_memory

\* the results whose count, release state or block a step changes
Touched == { a \in CallIds : arcs'[a] # arcs[a] \/ heap'[a] # heap[a] }

\* a step changes the count, the release state and the block of at most one
\* call's result: the new call's, or that of the clone made or dropped; the
\* clones of every other result keep their slices
OneResultPerStep ==
    /\ Cardinality(Touched) <= 1
    /\ Len(calls') > Len(calls) => Touched \subseteq {Len(calls')}
    /\ \A i \in Slots :
          handles'[i] # handles[i] =>
              \/ handles[i] # NoHandle /\ Touched = {handles[i].result}
              \/ handles'[i] # NoHandle /\ Touched = {handles'[i].result}

\* C27: every successful call has a block of its own, and a call, a clone or
\* a drop leaves the count, the release state, the block and the slices of
\* every other call's result as they were.
C27_ResultsIndependent == []FreshBlocks /\ [][OneResultPerStep]_vars

\* two calls succeeded, the result of one was cloned and lives on with both
\* clones while the only clone of the other was dropped and its block freed
C27_Witness ==
    \E a, b \in CallIds :
        /\ a # b
        /\ OwnsMemory(a) /\ OwnsMemory(b)
        /\ arcs[a].state = "live" /\ arcs[a].strong = 2
        /\ BlockOf(a).state = "live" /\ BlockOf(a).frees = 0
        /\ BlockOf(a).bytes = EngineBytes(a, BlockOf(a).size)
        /\ arcs[b].state = "dropped" /\ BlockOf(b).state = "freed"

\* whether p is the first bytes of s
IsPrefix(p, s) == Len(p) <= Len(s) /\ p = SubSeq(s, 1, Len(p))

\* C28: when the engine fails, encode_to_writer returns EncodingFailed and
\* the stream has received nothing; whatever a stream received is the
\* beginning of the output of an engine that succeeded.
C28_EngineBeforeStream ==
    \A c \in CallsMade :
        calls[c].op = "encode_to_writer" =>
            /\ calls[c].engine = 1
            /\ ~Encoded(c) =>
                  /\ calls[c].ret.err = "EncodingFailed"
                  /\ calls[c].io.received = <<>>
            /\ calls[c].io.received # <<>> =>
                  /\ Encoded(c)
                  /\ calls[c].ret.err # "EncodingFailed"
                  /\ IsPrefix(calls[c].io.received, StreamOf(c))

\* the engine rejected the options of an encode_to_writer whose stream takes
\* every write: the call returned EncodingFailed, the stream received nothing
C28_Witness ==
    \E c \in CallsMade :
        /\ calls[c].op = "encode_to_writer"
        /\ calls[c].io.writer = Writer(FALSE, 0)
        /\ calls[c].options.lossiness > QOIR_MAX_LOSSINESS
        /\ calls[c].ret.err = "EncodingFailed"
        /\ calls[c].io.received = <<>>

\* C29: encode_to_file creates or truncates the file before it invokes the
\* engine: when the file cannot be created the engine is not invoked, and
\* when the engine then fails the call returns EncodingFailed and leaves the
\* file in existence and empty, whatever it held.
C29_FileTruncatedBeforeEngine ==
    \A c \in CallsMade :
        (calls[c].op = "encode_to_file" /\ c = Len(calls)) =>
            LET f == calls[c].io.file
                now == fs[calls[c].io.path]
            IN  /\ f.access # "rw" => (calls[c].engine = 0 /\ now = f)
                /\ f.access = "rw" => (calls[c].engine = 1 /\ now.exists)
                /\ (f.access = "rw" /\ ~Encoded(c)) =>
                      /\ calls[c].ret.err = "EncodingFailed"
                      /\ now.exists
                      /\ now.content = <<>>

\* a file that held bytes was the destination of an encode_to_file whose
\* engine failed: the call returned EncodingFailed and the file is empty
C29_Witness ==
    \E c \in CallsMade :
        /\ c = Len(calls)
        /\ calls[c].op = "encode_to_file"
        /\ calls[c].io.file.exists
        /\ calls[c].io.file.content # <<>>
        /\ calls[c].ret.err = "EncodingFailed"
        /\ fs[calls[c].io.path].exists
        /\ fs[calls[c].io.path].content = <<>>

\* the calls that returned IoError after the engine had encoded the image
FailedAfterEncode ==
    { c \in CallsMade :
        /\ calls[c].op \in {"encode_to_writer", "encode_to_file"}
        /\ calls[c].ret.err = "IoError"
        /\ Encoded(c) }

\* C30: when encode_to_writer or encode_to_file returns IoError after the
\* engine encoded the image, no EncodedBuffer is returned, the owned result
\* is dropped and the engine's block is freed, once; no handle and no view
\* into the block is left.
C30_IoErrorReleasesBlock ==
    \A c \in FailedAfterEncode :
        /\ calls[c].ret = Err("IoError", <<>>)
        /\ calls[c].raw.owned_memory = Ptr(c, 0)
        /\ arcs[c].state = "dropped"
        /\ arcs[c].strong = 0
        /\ heap[c].state = "freed"
        /\ heap[c].frees = 1
        /\ HandlesOf(c) = {}
        /\ \A s \in views : s.ptr.blk # c

\* the device failed while encode_to_file wrote an encoded image: the call
\* returned IoError and the block the engine had allocated is freed
C30_Witness ==
    \E c \in FailedAfterEncode :
        /\ calls[c].op = "encode_to_file"
        /\ calls[c].io.file.fault = "error"
        /\ calls[c].raw.dst_len >= BufCapacity
        /\ heap[c].state = "freed"
        /\ heap[c].frees = 1
        /\ LiveSlots = {}

====
